---- MODULE Spec2Model ----
(***************************************************************************)
(* Model of gcp-read.py: the resource counter that scans GCP projects      *)
(* with two nested thread pools (projects x resource probes), walks the    *)
(* paginated list APIs, and accumulates counts in the shared totals,       *)
(* totals_log and errors_log.  An append made under totals_log_lock or     *)
(* errors_log_lock is one step; "with totals_lock" is a lock variable, and *)
(* each totals[key] += amount under it is a read and a write.              *)
(*                                                                         *)
(* Threads are named <<function, project_id, region>>: the main thread,    *)
(* one get_gcp_resources task per project, one task per submitted probe.   *)
(* The remote APIs are the environment: each request.execute() returns a   *)
(* page chosen from a bounded set, or raises.                              *)
(***************************************************************************)
EXTENDS Integers, Sequences, FiniteSets, Bags, TLC

(* ------------------------------ bounds -------------------------------- *)
\* number of projects in the scan
NumAccounts == 2
\* largest --max-workers value tried
MaxWorkers == 2
\* pages a remote listing can have when one probe is called on its own
MaxPages == 3
\* items a page can carry when one probe is called on its own
MaxItems == 2
\* pages a remote listing can have in a whole run
RunPages == 1
\* pages of the listings of a probe that looks into each item
DetailPages == 2
\* items a page can carry in a whole run
RunItems == 1
\* requests that the remote fails in one run
MaxFaults == 1
\* regions a project can list
MaxRegions == 2
\* the regions the remote lists in the runs of whole projects
RunRegions == 1
\* services enabled over all projects of the run
MaxServices == 2
\* copies of one identical record that errors_log keeps (a retry loop that
\* logs the same record for ever is cut to this many copies)
MaxRepeat == 2
\* largest --max-image-tags value tried, and most tags an image carries
MaxImageTags == 2
\* largest number of seconds the clock shows since start_time
MaxElapsed == 2

(* --------------------------- program constants ------------------------ *)
\* the largest --max-image-tags and --max-workers values accepted
MaxImageTagsLimit == 1000
MaxWorkersLimit == 1000
BucketLimit == 10000
RegistryImageLimit == 10000
\* "Limits: 1000 Container Images per Container Registry"
DocumentedImageLimit == 1000

(* ------------------------------ helpers ------------------------------- *)
Min(a, b) == IF a <= b THEN a ELSE b

RECURSIVE SumSeq(_)
SumSeq(s) == IF s = <<>> THEN 0 ELSE Head(s) + SumSeq(Tail(s))

RECURSIVE SeqFromTo(_, _, _)
SeqFromTo(s, i, n) == IF i > n THEN <<>> ELSE <<s[i]>> \o SeqFromTo(s, i + 1, n)

\* all sequences over S of length at most n
SeqsUpTo(S, n) == UNION {[1..k -> S] : k \in 0..n}

(* ------------------------------ names --------------------------------- *)
ProjectIds == <<"p1", "p2", "p3", "p4">>
RegionNames == <<"r1", "r2", "r3">>
Regions == {RegionNames[i] : i \in 1..MaxRegions}
RunRegionNames == {RegionNames[i] : i \in 1..RunRegions}

\* project_name of a project id (the second column of projects)
ProjectName(p) == "name-" \o p

COMPUTE == "compute.googleapis.com"
CONTAINER == "container.googleapis.com"
FUNCTIONS == "cloudfunctions.googleapis.com"
RUN == "run.googleapis.com"
STORAGE == "storage.googleapis.com"
STORAGE_API == "storage-api.googleapis.com"
SQLADMIN == "sqladmin.googleapis.com"
SPANNER == "spanner.googleapis.com"
BIGQUERY == "bigquery.googleapis.com"
ARTIFACTREGISTRY == "artifactregistry.googleapis.com"

\* the services the projects of a whole run can have enabled
RunServices == {COMPUTE, FUNCTIONS}
\* the services of a project whose registry is scanned
RegistryServices == {COMPUTE, ARTIFACTREGISTRY}

GCE == "get_gce_instances_and_gke_instances"
GKE == "get_gcp_gke_clusters"
CLOUD_FUNCTIONS == "get_gcp_cloud_functions"
CLOUDRUN == "get_gcp_cloudrun_revisions"
BUCKETS == "get_gcp_buckets"
CLOUDSQL == "get_gcp_cloudsql_instances"
SPANNER_INSTANCES == "get_gcp_spanner_instances"
BIGQUERY_DATASETS == "get_gcp_bigquery_datasets"
GCR == "get_gcp_gcr_images"

ProbeFunctions ==
  {GCE, GKE, CLOUD_FUNCTIONS, CLOUDRUN, BUCKETS, CLOUDSQL, SPANNER_INSTANCES,
   BIGQUERY_DATASETS, GCR}

ResourceTypes ==
  {"Virtual Machines", "Container Hosts", "Serverless Functions",
   "Serverless Containers", "Data Buckets", "PaaS Databases", "Data Warehouses",
   "Non-OS Disks", "Registry Container Images", "Kubernetes Sensors",
   "Virtual Machine Sensors", "Serverless Container Sensors"}

MainThread == <<"main", "", "">>
AccountThread(p) == <<"get_gcp_resources", p, "">>
ProbeThread(f, p, r) == <<f, p, r>>

AllProjects == {ProjectIds[i] : i \in 1..NumAccounts}
AccountThreads == {AccountThread(p) : p \in AllProjects}
ProbeThreads ==
  {ProbeThread(f, p, "") : f \in ProbeFunctions \ {GCR}, p \in AllProjects}
  \cup {ProbeThread(GCR, p, r) : p \in AllProjects, r \in Regions}
Threads == {MainThread} \cup AccountThreads \cup ProbeThreads

NoThread == <<"", "", "">>

VARIABLES
  args,            \* the parsed command line
  projects,        \* main's list of project ids, sorted
  totals,          \* resource type -> running sum
  totals_log,      \* rows [resource_type, resource_count, project, region]
  errors_log,      \* error records
  totals_lock,     \* the thread holding the lock, or NoThread
  pc,              \* thread -> where it is in its code
  locals,          \* thread -> its local variables
  queue,           \* pool owner -> tasks submitted and not yet started (FIFO)
  main,            \* main's locals, the progress it printed, its exit status
  remote_log,      \* thread -> the responses the remote gave it, in order
  faults,          \* the requests the remote has failed so far
  mock,            \* the environment: the remote's page limits, services,
                   \* regions and the numbers of tags its images have,
                   \* whether it keeps remote_log, the clock,
                   \* the files that exist and the project ids projects.txt
                   \* lists
  report           \* what output_results wrote, or no report yet

vars ==
  <<args, projects, totals, totals_log, errors_log, totals_lock, pc, locals,
    queue, main, remote_log, faults, mock, report>>

\* errors_log is framed by Goto (unchanged) and CallErrorPrint (appended to)
shared == <<totals, totals_log>>
locks == <<totals_lock>>
remote == <<remote_log, faults>>
inputs == <<args, projects, mock>>

(* ------------------------- configuration ------------------------------ *)
\* enabled: the map from command-line arguments to the counts to execute
enabled(a) ==
  [rt \in ResourceTypes |->
     IF rt = "Registry Container Images" THEN a.images_mode ELSE TRUE]

\* totals as the module defines it
InitTotals == [rt \in ResourceTypes |-> 0]

(* --------------------------- thread locals ---------------------------- *)
\* locals of get_gcp_resources (with those of the two listings it calls)
AccountLocals ==
  [client |-> FALSE, request |-> 0, gcp_enabled_services |-> {},
   service_list |-> {}, gcp_regions |-> {}, regions_list |-> <<>>,
   exceptions |-> 0, futures |-> <<>>]

\* locals of a probe function.  count is the one counter of the probes that
\* keep one (serverless_functions_count, serverless_containers_count,
\* buckets_count, database_instances_count, instances_databases_count,
\* data_warehouses_count, container_registry_images); emit and tmp hold the
\* place in the trailing progress_print / totals updates.
ProbeLocals ==
  [request |-> 0, response |-> <<>>, token |-> "none", count |-> 0,
   instances_count |-> 0, gke_instances_count |-> 0, non_os_disks_count |-> 0,
   linux_instances_count |-> 0, gke_nodes_count |-> 0,
   gke_containers_count |-> 0, repositories |-> <<>>,
   container_registry_images_in_repository |-> 0, database_count |-> 0,
   db_request |-> 0, closed |-> FALSE, emit |-> <<>>, tmp |-> 0]

\* the options of a parallel run over the projects given on the command line
Parallel ==
  [debug_mode |-> FALSE, data_mode |-> FALSE, input_projects |-> FALSE,
   input_excluded_folders |-> FALSE]

\* main's locals as main begins: completed_count, the futures as_completed
\* has yielded, the index of the debug loop, the progress printed, whether
\* the signal handler ran, the exception that left main, the exit status of
\* the process (-1 while it runs)
InitMain ==
  [completed_count |-> 0, collected |-> {}, idx |-> 0, progress |-> <<>>,
   interrupted |-> FALSE, exception |-> "", exit_status |-> -1]

\* the state when main has parsed the command line and listed the projects
StartWith(a, n, remote_services, remote_regions) ==
  /\ args = a
  /\ projects = SeqFromTo(ProjectIds, 1, n)
  /\ totals = InitTotals
  /\ totals_log = <<>>
  /\ errors_log = <<>>
  /\ totals_lock = NoThread
  /\ pc = [t \in Threads |-> IF t = MainThread THEN "submit" ELSE "absent"]
  /\ locals = [t \in AccountThreads \cup ProbeThreads |->
                 IF t \in AccountThreads THEN AccountLocals ELSE ProbeLocals]
  /\ queue = [t \in {MainThread} \cup AccountThreads |-> <<>>]
  /\ main = InitMain
  /\ remote_log = [t \in Threads |-> <<>>]
  /\ faults = 0
  /\ mock = [pages |-> RunPages, items |-> RunItems, log |-> FALSE,
             services |-> remote_services, regions |-> remote_regions,
             tags |-> 0..MaxImageTags, clock |-> {1}, files |-> {},
             listed |-> n]
  /\ report = [written |-> FALSE]

\* the same where the remote lists the regions of RunRegionNames
Start(a, n, remote_services) == StartWith(a, n, remote_services, RunRegionNames)

Init ==
  \E a \in [max_workers : 1..MaxWorkers, verbose_mode : {FALSE},
             images_mode : {FALSE}, max_image_tags : {1}],
     n \in 0..NumAccounts :
    Start(a @@ Parallel, n, RunServices)

(* ----------------------------- the pools ------------------------------ *)
Finished(t) == pc[t] \in {"returned", "raised"}
Running(t) == pc[t] \notin {"absent", "queued", "returned", "raised"}

\* the tasks an executor has submitted: main's pool runs the project tasks,
\* the pool of a get_gcp_resources call runs that project's probes
TasksOf(owner) ==
  IF owner = MainThread THEN AccountThreads
  ELSE {t \in ProbeThreads : t[2] = owner[2]}

\* an executor that starts a thread for every task submitted
CanStartUnbounded(owner, t) ==
  /\ queue[owner] # <<>>
  /\ Head(queue[owner]) = t

\* one pool of max_workers threads shared by the project tasks and the
\* probes they submit
CanStartShared(owner, t) ==
  /\ queue[owner] # <<>>
  /\ Head(queue[owner]) = t
  /\ Cardinality({u \in AccountThreads \cup ProbeThreads : Running(u)})
       < args.max_workers

\* ThreadPoolExecutor: the oldest queued task starts when fewer than
\* max_workers tasks of the pool are running
CanStart(owner, t) ==
  /\ queue[owner] # <<>>
  /\ Head(queue[owner]) = t
  /\ Cardinality({u \in TasksOf(owner) : Running(u)}) < args.max_workers

(* ---------------------------- control flow ---------------------------- *)
\* errors_log.append, keeping at most MaxRepeat copies of one record
AppendError(log, rec) ==
  IF Cardinality({i \in 1..Len(log) : log[i] = rec}) >= MaxRepeat
  THEN log ELSE Append(log, rec)

\* t goes on to label
Jump(t, label) == pc' = [pc EXCEPT ![t] = label]

\* t goes on to label without logging an error
Goto(t, label) ==
  /\ Jump(t, label)
  /\ UNCHANGED errors_log

\* n calls of error_print with the same record
RECURSIVE AppendErrors(_, _, _)
AppendErrors(log, rec, n) ==
  IF n = 0 THEN log ELSE AppendErrors(AppendError(log, rec), rec, n - 1)

\* t calls error_print(details, project) from function fn and goes on to
\* cont: under errors_log_lock the record is appended to errors_log
CallErrorPrint(t, fn, project, details, cont) ==
  /\ errors_log' = AppendError(errors_log,
       [project |-> project, function |-> fn, details |-> details])
  /\ pc' = [pc EXCEPT ![t] = cont]

\* the remote fails n more requests
Fault(n) ==
  /\ faults + n <= MaxFaults
  /\ faults' = faults + n

\* log with one more response of the remote
Logging(log, walk, page, status, n, token) ==
  LET entry == [walk |-> walk, page |-> page, status |-> status, n |-> n,
                token |-> token] IN
  IF ~mock.log \/ Cardinality({i \in 1..Len(log) : log[i] = entry}) >= MaxRepeat
  THEN log ELSE Append(log, entry)

\* the remote answers one request of thread t
Logged(t, walk, page, status, n, token) ==
  remote_log' = [remote_log EXCEPT ![t] =
                   Logging(@, walk, page, status, n, token)]

\* log with k more disks().get or images().get requests that raised, each
\* numbered by its place among the lookups that raised
RECURSIVE LookupsLogged(_, _)
LookupsLogged(log, k) ==
  IF k = 0 THEN log
  ELSE LET before == LookupsLogged(log, k - 1) IN
       Logging(before, "disks",
               1 + Cardinality({i \in 1..Len(before) : before[i].walk = "disks"}),
               "error", 0, "none")

\* the remote answers one request of thread t; a request that raises and a
\* cursor from which list_next raises are faults
Served(t, walk, page, status, n, token) ==
  /\ Logged(t, walk, page, status, n, token)
  /\ Fault(IF status = "error" \/ token = "bad" THEN 1 ELSE 0)

\* a listing of thread t begins anew: the remote's log keeps the listings in
\* progress only
Forget(t, walk) ==
  /\ remote_log' = [remote_log EXCEPT ![t] =
       SelectSeq(@, LAMBDA entry : entry.walk # walk)]
  /\ UNCHANGED faults

\* the continuation cursors a page can carry: none, one that list_next turns
\* into the next request, or one from which list_next raises
Tokens(page) ==
  IF page < mock.pages THEN {"none", "good", "bad"} ELSE {"none", "bad"}

(* ------------------------- get_gcp_resources -------------------------- *)
\* services enabled so far over all projects
EnabledSoFar ==
  SumSeq([i \in 1..NumAccounts |->
    Cardinality(locals[AccountThread(ProjectIds[i])].gcp_enabled_services)])

\* the pages the serviceusage listing can return next
ServicePages(t) ==
  {S \in SUBSET mock.services :
     /\ S \cap locals[t].gcp_enabled_services = {}
     /\ EnabledSoFar + Cardinality(S) <= MaxServices}

\* a worker of main's pool takes the project task, which calls
\* get_gcp_enabled_services: build the client and the first request; an
\* exception of either is logged
AccountStart(p) ==
  LET t == AccountThread(p) IN
  /\ pc[t] = "queued"
  /\ CanStart(MainThread, t)
  /\ queue' = [queue EXCEPT ![MainThread] = Tail(@)]
  /\ \E outcome \in {"ok", "build_raises", "list_raises"} :
       IF outcome = "ok"
       THEN /\ locals' = [locals EXCEPT ![t].client = TRUE, ![t].request = 1]
            /\ Goto(t, "services_execute")
            /\ UNCHANGED faults
       ELSE /\ locals' = [locals EXCEPT ![t].client = (outcome = "list_raises")]
            /\ CallErrorPrint(t, "get_gcp_enabled_services", p,
                              <<"exception", outcome>>, "services_close")
            /\ Fault(1)
  /\ UNCHANGED <<inputs, shared, locks, main, remote_log, report>>

\* get_gcp_enabled_services: one turn of the while loop
ServicesExecute(p) ==
  LET t == AccountThread(p)
      page == locals[t].request IN
  /\ pc[t] = "services_execute"
  /\ \/ /\ Served(t, "services", page, "error", 0, "none")
        /\ UNCHANGED locals
        /\ CallErrorPrint(t, "get_gcp_enabled_services", p,
                          <<"exception", "execute_raises">>, "services_close")
     \/ \E S \in ServicePages(t), token \in Tokens(page) :
          /\ Served(t, "services", page, "ok", Cardinality(S), token)
          /\ locals' = [locals EXCEPT
               ![t].gcp_enabled_services = @ \cup S,
               ![t].request = IF token = "good" THEN page + 1
                              ELSE IF token = "none" THEN 0 ELSE page]
          /\ IF token = "good" THEN Goto(t, "services_execute")
             ELSE IF token = "none" THEN Goto(t, "services_close")
             ELSE CallErrorPrint(t, "get_gcp_enabled_services", p,
                                 <<"exception", "list_next_raises">>,
                                 "services_close")
  /\ UNCHANGED <<inputs, shared, locks, queue, main, report>>

\* sorted(gcp_regions)
SortRegions(S) == SelectSeq(RegionNames, LAMBDA r : r \in S)

\* get_gcp_enabled_services: client.close(), sort, return.  client is
\* unbound when build raised, and the UnboundLocalError leaves
\* get_gcp_resources.  Then, when the compute service is enabled,
\* get_gcp_regions: build the client and the first request; an exception is
\* logged and the regions are empty.
ServicesClose(p) ==
  LET t == AccountThread(p)
      listed == [locals[t] EXCEPT !.service_list = locals[t].gcp_enabled_services,
                                  !.request = 0] IN
  /\ pc[t] = "services_close"
  /\ IF ~locals[t].client
     THEN /\ Goto(t, "raised")
          /\ UNCHANGED <<locals, faults>>
     ELSE IF COMPUTE \notin locals[t].gcp_enabled_services
     THEN /\ locals' = [locals EXCEPT ![t] = listed]
          /\ Goto(t, "check_services")
          /\ UNCHANGED faults
     ELSE \/ /\ locals' = [locals EXCEPT ![t] = [listed EXCEPT !.request = 1]]
             /\ Goto(t, "regions_execute")
             /\ UNCHANGED faults
          \/ /\ locals' = [locals EXCEPT ![t] = listed]
             /\ CallErrorPrint(t, "get_gcp_regions", p,
                               <<"exception", "build_raises">>, "check_services")
             /\ Fault(1)
  /\ UNCHANGED <<inputs, shared, locks, queue, main, remote_log, report>>

\* get_gcp_regions: one turn of the while loop; the list is sorted and
\* returned when the loop ends or raises
RegionsExecute(p) ==
  LET t == AccountThread(p)
      page == locals[t].request IN
  /\ pc[t] = "regions_execute"
  /\ \/ /\ Served(t, "regions", page, "error", 0, "none")
        /\ locals' = [locals EXCEPT
             ![t].regions_list = SortRegions(locals[t].gcp_regions)]
        /\ CallErrorPrint(t, "get_gcp_regions", p,
                          <<"exception", "execute_raises">>, "check_services")
     \/ \E S \in SUBSET (mock.regions \ locals[t].gcp_regions),
           token \in Tokens(page) :
          /\ Served(t, "regions", page, "ok", Cardinality(S), token)
          /\ locals' = [locals EXCEPT
               ![t].gcp_regions = @ \cup S,
               ![t].regions_list = SortRegions(locals[t].gcp_regions \cup S),
               ![t].request = IF token = "good" THEN page + 1
                              ELSE IF token = "none" THEN 0 ELSE page]
          /\ IF token = "good" THEN Goto(t, "regions_execute")
             ELSE IF token = "none" THEN Goto(t, "check_services")
             ELSE CallErrorPrint(t, "get_gcp_regions", p,
                                 <<"exception", "list_next_raises">>,
                                 "check_services")
  /\ UNCHANGED <<inputs, shared, locks, queue, main, report>>

\* a parallel branch that submits the cloud functions probe and one registry
\* probe per region whatever service_list and enabled hold
ParallelProbesUngated(p, a, service_list, regions_list) ==
  <<ProbeThread(CLOUD_FUNCTIONS, p, "")>>
  \o [i \in 1..Len(regions_list) |-> ProbeThread(GCR, p, regions_list[i])]

\* a parallel branch that submits the registry probe for every region there
\* is, not for those of regions_list
ParallelProbesEveryRegion(p, a, service_list, regions_list) ==
  IF enabled(a)["Registry Container Images"]
     /\ ARTIFACTREGISTRY \in service_list
  THEN [i \in 1..MaxRegions |-> ProbeThread(GCR, p, RegionNames[i])]
  ELSE <<>>

\* the probes the parallel branch of get_gcp_resources submits, in order
ParallelProbes(p, a, service_list, regions_list) ==
  LET en == enabled(a)
      one(cond, f) == IF cond THEN <<ProbeThread(f, p, "")>> ELSE <<>> IN
    one((en["Virtual Machines"] \/ en["Container Hosts"])
          /\ COMPUTE \in service_list, GCE)
    \o one((en["Container Hosts"] \/ en["Serverless Containers"])
          /\ CONTAINER \in service_list, GKE)
    \o one(en["Serverless Functions"] /\ FUNCTIONS \in service_list,
           CLOUD_FUNCTIONS)
    \o one(en["Serverless Containers"] /\ RUN \in service_list, CLOUDRUN)
    \o one(en["Data Buckets"] /\ STORAGE_API \in service_list, BUCKETS)
    \o one(en["PaaS Databases"] /\ SQLADMIN \in service_list, CLOUDSQL)
    \o one(en["PaaS Databases"] /\ SPANNER \in service_list, SPANNER_INSTANCES)
    \o one(en["Data Warehouses"] /\ BIGQUERY \in service_list,
           BIGQUERY_DATASETS)
    \o (IF en["Registry Container Images"]
           /\ ARTIFACTREGISTRY \in service_list
        THEN [i \in 1..Len(regions_list) |->
                ProbeThread(GCR, p, regions_list[i])]
        ELSE <<>>)

\* the probes the debug branch of get_gcp_resources calls, in order
DebugProbes(p, a, service_list, regions_list) ==
  LET en == enabled(a)
      one(cond, f) == IF cond THEN <<ProbeThread(f, p, "")>> ELSE <<>> IN
    one((en["Virtual Machines"] \/ en["Container Hosts"])
          /\ COMPUTE \in service_list, GCE)
    \o one((en["Container Hosts"] \/ en["Serverless Containers"])
          /\ CONTAINER \in service_list, GKE)
    \o one(en["Serverless Functions"] /\ FUNCTIONS \in service_list,
           CLOUD_FUNCTIONS)
    \o one(en["Serverless Containers"] /\ RUN \in service_list, CLOUDRUN)
    \o one(en["Data Buckets"] /\ STORAGE \in service_list, BUCKETS)
    \o one(en["PaaS Databases"] /\ SQLADMIN \in service_list, CLOUDSQL)
    \o one(en["PaaS Databases"] /\ SPANNER \in service_list, SPANNER_INSTANCES)
    \o one(en["Data Warehouses"] /\ BIGQUERY \in service_list,
           BIGQUERY_DATASETS)
    \o (IF en["Registry Container Images"]
           /\ ARTIFACTREGISTRY \in service_list
        THEN [i \in 1..Len(regions_list) |->
                ProbeThread(GCR, p, regions_list[i])]
        ELSE <<>>)

\* a get_gcp_resources that scans compute whatever service_list holds
CheckServicesDefault(p) ==
  LET t == AccountThread(p)
      futures == <<ProbeThread(GCE, p, "")>> IN
  /\ pc[t] = "check_services"
  /\ pc' = [u \in Threads |->
              IF u = t THEN "shutdown"
              ELSE IF u = futures[1] THEN "queued" ELSE pc[u]]
  /\ UNCHANGED errors_log
  /\ locals' = [locals EXCEPT ![t].futures = futures]
  /\ queue' = [queue EXCEPT ![t] = futures]
  /\ UNCHANGED <<inputs, shared, locks, main, remote, report>>

\* get_gcp_resources: "if not service_list: return", else the executor.submit
\* calls of the parallel branch, or the debug branch, whose calls are made
\* one after the other (futures then holds the calls to make)
CheckServices(p) ==
  LET t == AccountThread(p)
      futures == IF args.debug_mode
                 THEN DebugProbes(p, args, locals[t].service_list,
                                  locals[t].regions_list)
                 ELSE ParallelProbes(p, args, locals[t].service_list,
                                     locals[t].regions_list) IN
  /\ pc[t] = "check_services"
  /\ IF locals[t].service_list = {}
     THEN /\ Goto(t, "returned")
          /\ UNCHANGED <<locals, queue>>
     ELSE /\ pc' = [u \in Threads |->
                      IF u = t
                      THEN IF args.debug_mode THEN "debug_call" ELSE "shutdown"
                      ELSE IF ~args.debug_mode
                              /\ \E i \in 1..Len(futures) : futures[i] = u
                           THEN "queued" ELSE pc[u]]
          /\ UNCHANGED errors_log
          /\ locals' = [locals EXCEPT ![t].futures = futures]
          /\ queue' = [queue EXCEPT ![t] = futures]
  /\ UNCHANGED <<inputs, shared, locks, main, remote, report>>

\* a debug branch that starts all its probes at once
DebugCallAll(p) ==
  LET t == AccountThread(p)
      futures == locals[t].futures IN
  /\ pc[t] = "debug_call"
  /\ IF queue[t] = <<>>
     THEN /\ \A i \in 1..Len(futures) : Finished(futures[i])
          /\ Jump(t, IF \E i \in 1..Len(futures) : pc[futures[i]] = "raised"
                     THEN "raised" ELSE "returned")
          /\ UNCHANGED queue
     ELSE /\ pc' = [u \in Threads |->
                      IF \E i \in 1..Len(queue[t]) : queue[t][i] = u
                      THEN "execute" ELSE pc[u]]
          /\ queue' = [queue EXCEPT ![t] = <<>>]
  /\ UNCHANGED <<inputs, shared, locks, errors_log, locals, main, remote,
                 report>>

\* get_gcp_resources, debug branch: the next probe is called when the one
\* before it has returned; an exception of a probe leaves get_gcp_resources
\* and the probes after it are not called
DebugCall(p) ==
  LET t == AccountThread(p)
      futures == locals[t].futures IN
  /\ pc[t] = "debug_call"
  /\ \A i \in 1..Len(futures) : pc[futures[i]] \in {"absent", "returned", "raised"}
  /\ IF \E i \in 1..Len(futures) : pc[futures[i]] = "raised"
     THEN Jump(t, "raised")
     ELSE IF queue[t] = <<>> THEN Jump(t, "returned")
     ELSE pc' = [pc EXCEPT ![Head(queue[t])] = "queued"]
  /\ UNCHANGED <<inputs, shared, locks, errors_log, locals, queue, main, remote,
                 report>>

\* get_gcp_resources leaving its executor without waiting for its probes
ShutdownNoWait(p) ==
  LET t == AccountThread(p)
      futures == locals[t].futures IN
  /\ pc[t] = "shutdown"
  /\ locals' = [locals EXCEPT ![t].exceptions =
       Cardinality({i \in 1..Len(futures) : pc[futures[i]] = "raised"})]
  /\ Goto(t, "returned")
  /\ UNCHANGED <<inputs, shared, locks, queue, main, remote, report>>

\* get_gcp_resources leaving its executor as soon as one probe has raised
ShutdownFailFast(p) ==
  LET t == AccountThread(p)
      futures == locals[t].futures IN
  /\ pc[t] = "shutdown"
  /\ \/ \A i \in 1..Len(futures) : Finished(futures[i])
     \/ \E i \in 1..Len(futures) : pc[futures[i]] = "raised"
  /\ locals' = [locals EXCEPT ![t].exceptions =
       Cardinality({i \in 1..Len(futures) : pc[futures[i]] = "raised"})]
  /\ Goto(t, "returned")
  /\ UNCHANGED <<inputs, shared, locks, queue, main, remote, report>>

\* get_gcp_resources: the end of the "with executor" block waits for every
\* probe; the as_completed loop then counts the futures holding an exception
Shutdown(p) ==
  LET t == AccountThread(p)
      futures == locals[t].futures IN
  /\ pc[t] = "shutdown"
  /\ \A i \in 1..Len(futures) : Finished(futures[i])
  /\ locals' = [locals EXCEPT ![t].exceptions =
       Cardinality({i \in 1..Len(futures) : pc[futures[i]] = "raised"})]
  /\ Goto(t, "returned")
  /\ UNCHANGED <<inputs, shared, locks, queue, main, remote, report>>

(* -------------------------------- main -------------------------------- *)
excluded_folders_file == "excluded-folders.txt"
input_file == "projects.txt"

\* an exception leaves main: the process ends with a traceback and status 1
Uncaught(exception) ==
  /\ pc' = [pc EXCEPT ![MainThread] = "raised"]
  /\ main' = [main EXCEPT !.exception = exception, !.exit_status = 1]

\* the process ends through sys.exit(status)
SysExit(status) ==
  /\ pc' = [pc EXCEPT ![MainThread] = "exited"]
  /\ main' = [main EXCEPT !.exit_status = status]

\* the checks of the parsed command line: a --max-image-tags or a
\* --max-workers value out of range ends the process with status 1
ParseArgs ==
  /\ pc[MainThread] = "parse_args"
  /\ IF args.max_image_tags < 1 \/ args.max_image_tags > MaxImageTagsLimit
     THEN SysExit(1)
     ELSE IF args.max_workers < 1 \/ args.max_workers > MaxWorkersLimit
     THEN SysExit(1)
     ELSE Jump(MainThread, "main") /\ UNCHANGED main
  /\ UNCHANGED <<inputs, shared, locks, errors_log, locals, queue, remote,
                 report>>

\* the three error_print calls of a reader whose file does not exist
MissingFile(fn, file) ==
  AppendError(AppendError(AppendError(errors_log,
    [project |-> "", function |-> fn, details |-> <<file, "does not exist.">>]),
    [project |-> "", function |-> fn, details |-> <<"Create a file named", file>>]),
    [project |-> "", function |-> fn, details |-> <<"Exiting...">>])

\* main up to its banner: with --exclude get_excluded_folders_from_file,
\* with --projects get_gcp_projects_from_file, else the project given by
\* --id.  A reader whose file does not exist calls sys.exit(), whose status
\* is 0.  get_gcp_projects_from_file gets the name of every listed project
\* in a try that logs an exception and drops the project; its
\* client.close() is outside the try and raises when the first build
\* raised, which leaves main.
MainProjects ==
  LET ids == SeqFromTo(ProjectIds, 1, mock.listed) IN
  /\ pc[MainThread] = "main"
  /\ IF args.input_excluded_folders /\ excluded_folders_file \notin mock.files
     THEN /\ errors_log' = MissingFile("get_excluded_folders_from_file",
                                       excluded_folders_file)
          /\ SysExit(0)
          /\ UNCHANGED <<projects, faults>>
     ELSE IF args.input_projects /\ input_file \notin mock.files
     THEN /\ errors_log' = MissingFile("get_gcp_projects_from_file", input_file)
          /\ SysExit(0)
          /\ UNCHANGED <<projects, faults>>
     ELSE IF ~args.input_projects
     THEN /\ projects' = <<ProjectIds[1]>>
          /\ Goto(MainThread, "submit")
          /\ UNCHANGED <<main, faults>>
     ELSE \/ /\ projects' = ids
             /\ Goto(MainThread, "submit")
             /\ UNCHANGED <<main, faults>>
          \/ \E i \in 1..Len(ids), raises \in {"build_raises", "execute_raises"} :
               /\ Fault(1)
               /\ errors_log' = AppendError(errors_log,
                    [project |-> ids[i],
                     function |-> "get_gcp_projects_from_file",
                     details |-> <<"exception", raises>>])
               /\ IF i = 1 /\ raises = "build_raises"
                  THEN /\ Uncaught("UnboundLocalError")
                       /\ UNCHANGED projects
                  ELSE /\ projects' = SelectSeq(ids, LAMBDA id : id # ids[i])
                       /\ Jump(MainThread, "submit")
                       /\ UNCHANGED main
  /\ UNCHANGED <<args, mock, shared, locks, locals, queue, remote_log, report>>

\* main: submit get_gcp_resources for every project
MainSubmit ==
  /\ pc[MainThread] = "submit"
  /\ ~args.debug_mode
  /\ pc' = [u \in Threads |->
              IF u = MainThread THEN "as_completed"
              ELSE IF \E i \in 1..Len(projects) : u = AccountThread(projects[i])
                   THEN "queued" ELSE pc[u]]
  /\ UNCHANGED errors_log
  /\ queue' = [queue EXCEPT ![MainThread] =
                 [i \in 1..Len(projects) |-> AccountThread(projects[i])]]
  /\ UNCHANGED <<inputs, shared, locks, locals, main, remote, report>>

\* main, debug mode: "for idx, (project_id, project_name) in
\* enumerate(projects, 1): get_gcp_resources(project_id, project_name)".
\* The call is outside any try: an exception of get_gcp_resources leaves
\* main, and the process ends with status 1.
MainDebug ==
  LET next == main.idx + 1
      call(i) == IF i <= Len(projects) THEN <<AccountThread(projects[i])>>
                 ELSE <<>> IN
  /\ args.debug_mode
  /\ \/ pc[MainThread] = "submit"
     \/ /\ pc[MainThread] = "debug_loop"
        /\ main.idx <= Len(projects)
        /\ Finished(AccountThread(projects[main.idx]))
  /\ IF main.idx >= 1 /\ pc[AccountThread(projects[main.idx])] = "raised"
     THEN /\ Uncaught("Exception")
          /\ UNCHANGED queue
     ELSE /\ pc' = [u \in Threads |->
                      IF u = MainThread THEN "debug_loop"
                      ELSE IF <<u>> = call(next) THEN "queued" ELSE pc[u]]
          /\ main' = [main EXCEPT !.idx = next]
          /\ queue' = [queue EXCEPT ![MainThread] = call(next)]
  /\ UNCHANGED <<inputs, shared, locks, errors_log, locals, remote, report>>

\* numbers that are quotients are kept exact, as <<numerator, denominator>>
\* with a positive denominator (the script computes them in floating point)
Zero == <<0, 1>>

\* rate = completed_count / elapsed if elapsed > 0 else 0
Rate(completed_count, elapsed) ==
  IF elapsed > 0 THEN <<completed_count, elapsed>> ELSE Zero

\* remaining = (len(projects) - completed_count) / rate if rate > 0 else 0
Remaining(total, completed_count, rate) ==
  IF rate[1] > 0 THEN <<(total - completed_count) * rate[2], rate[1]>> ELSE Zero

\* the percentage of an integer division
PercentageFloor(completed_count, total) ==
  <<(completed_count \div total) * 100, 1>>

\* percentage = (completed_count / len(projects)) * 100
Percentage(completed_count, total) == <<completed_count * 100, total>>

\* the progress lines main prints for its completed_count at elapsed seconds
Snapshot(completed_count, total, elapsed) ==
  LET rate == Rate(completed_count, elapsed) IN
  [elapsed |-> elapsed, completed |-> completed_count, total |-> total,
   percentage |-> Percentage(completed_count, total),
   rate |-> rate, remaining |-> Remaining(total, completed_count, rate)]

\* main's locals after a future whose result() returned
CountedAndPrinted(p, elapsed) ==
  [main EXCEPT !.collected = @ \cup {p},
               !.completed_count = @ + 1,
               !.progress = Append(@, Snapshot(main.completed_count + 1,
                                               Len(projects), elapsed))]

\* main's locals after a future whose result() raised
Counted(p) ==
  [main EXCEPT !.collected = @ \cup {p}, !.completed_count = @ + 1]

\* main's loop counting a raised future in the try and again in the except
MainCollectTwice(p) ==
  LET t == AccountThread(p) IN
  /\ pc[MainThread] = "as_completed"
  /\ Finished(t)
  /\ p \notin main.collected
  /\ IF pc[t] = "raised"
     THEN /\ main' = [Counted(p) EXCEPT !.completed_count = @ + 1]
          /\ CallErrorPrint(MainThread, "main", "",
                            <<"Exception scanning", p>>, "as_completed")
     ELSE /\ \E elapsed \in mock.clock : main' = CountedAndPrinted(p, elapsed)
          /\ Goto(MainThread, "as_completed")
  /\ UNCHANGED <<inputs, shared, locks, locals, queue, remote, report>>

\* main's loop without the except clause around future.result()
MainCollectSilent(p) ==
  LET t == AccountThread(p) IN
  /\ pc[MainThread] = "as_completed"
  /\ Finished(t)
  /\ p \notin main.collected
  /\ \E elapsed \in mock.clock :
       main' = IF pc[t] = "raised" THEN Counted(p)
               ELSE CountedAndPrinted(p, elapsed)
  /\ Goto(MainThread, "as_completed")
  /\ UNCHANGED <<inputs, shared, locks, locals, queue, remote, report>>

\* main: one turn of the as_completed loop: future.result() returns, and the
\* progress is counted and printed, or raises, and the exception is counted
\* and logged
MainCollect(p) ==
  LET t == AccountThread(p) IN
  /\ pc[MainThread] = "as_completed"
  /\ Finished(t)
  /\ p \notin main.collected
  /\ IF pc[t] = "raised"
     THEN /\ main' = Counted(p)
          /\ CallErrorPrint(MainThread, "main", "",
                            <<"Exception scanning", p>>, "as_completed")
     ELSE /\ \E elapsed \in mock.clock : main' = CountedAndPrinted(p, elapsed)
          /\ Goto(MainThread, "as_completed")
  /\ UNCHANGED <<inputs, shared, locks, locals, queue, remote, report>>

\* the report output_results writes
Written ==
  [written |-> TRUE, totals |-> totals, totals_log |-> totals_log,
   errors_log |-> errors_log]

\* main after its loop: total_time, the average rate
\* len(projects) / total_time, which raises ZeroDivisionError when total_time
\* is 0, and output_results
Finale ==
  \E total_time \in mock.clock :
    IF total_time = 0
    THEN /\ Uncaught("ZeroDivisionError")
         /\ UNCHANGED <<errors_log, report>>
    ELSE /\ Goto(MainThread, "returned")
         /\ main' = [main EXCEPT !.exit_status = 0]
         /\ report' = Written

\* main leaving its loop on the first project task that raised
OutputResultsAfterRaise ==
  /\ pc[MainThread] = "as_completed"
  /\ \/ main.collected = {projects[i] : i \in 1..Len(projects)}
     \/ \E p \in main.collected : pc[AccountThread(p)] = "raised"
  /\ Finale
  /\ UNCHANGED <<inputs, shared, locks, locals, queue, remote>>

\* main: every future was yielded and the pool shuts down (or, in debug
\* mode, every project was scanned); then the timing lines and
\* output_results, which writes the summary, the log and the errors
OutputResults ==
  /\ \/ /\ pc[MainThread] = "as_completed"
        /\ main.collected = {projects[i] : i \in 1..Len(projects)}
     \/ /\ pc[MainThread] = "debug_loop"
        /\ main.idx > Len(projects)
  /\ Finale
  /\ UNCHANGED <<inputs, shared, locks, locals, queue, remote>>

\* a signal handler that prints "Exiting" and returns
SignalHandlerReturns ==
  /\ ~main.interrupted
  /\ pc[MainThread] \in {"submit", "as_completed"}
  /\ main' = [main EXCEPT !.interrupted = TRUE]
  /\ UNCHANGED pc
  /\ UNCHANGED errors_log
  /\ UNCHANGED <<inputs, shared, locks, locals, queue, remote, report>>

\* SIGINT while main is inside "with ThreadPoolExecutor(...) as executor":
\* signal_handler prints "Exiting" and calls sys.exit(0) in the main thread.
\* SystemExit is not an Exception, so "except Exception" lets it pass; it
\* leaves the with block through the executor's __exit__, which is
\* shutdown(wait=True)
SignalHandler ==
  /\ ~main.interrupted
  /\ pc[MainThread] \in {"submit", "as_completed"}
  /\ main' = [main EXCEPT !.interrupted = TRUE]
  /\ Goto(MainThread, "shutdown")
  /\ UNCHANGED <<inputs, shared, locks, locals, queue, remote, report>>

\* shutdown(wait=True) of main's pool joins its workers, which run every
\* task that was submitted, the queued ones included; then SystemExit ends
\* the process with status 0
ExecutorExit ==
  /\ pc[MainThread] = "shutdown"
  /\ \A t \in TasksOf(MainThread) : pc[t] = "absent" \/ Finished(t)
  /\ SysExit(0)
  /\ UNCHANGED errors_log
  /\ UNCHANGED <<inputs, shared, locks, locals, queue, remote, report>>

(* ----------------------- progress_print and totals -------------------- *)
\* what a probe prints and adds once its listing is read: a sequence of
\* [row, merges], one per "if count > 0 or args.verbose_mode" block
Block(a, count, label, p, region, merges) ==
  IF count > 0 \/ a.verbose_mode
  THEN << [row |-> <<label, count, ProjectName(p), region>>,
           merges |-> merges] >>
  ELSE <<>>

Emissions(t, a, l) ==
  LET f == t[1]
      p == t[2] IN
  CASE f = GCE ->
         Block(a, l.instances_count, "Virtual Machines [Compute]", p, "",
               << <<"Virtual Machines", l.instances_count>>,
                  <<"Non-OS Disks", l.non_os_disks_count>>,
                  <<"Virtual Machine Sensors", l.linux_instances_count>> >>)
         \o Block(a, l.gke_instances_count, "Container Hosts [GKE]", p, "",
               << <<"Container Hosts", l.gke_instances_count>>,
                  <<"Kubernetes Sensors", l.gke_instances_count>> >>)
    [] f = GKE ->
         Block(a, l.gke_nodes_count, "Kubernetes Sensors [GKE Autopilot]", p, "",
               << <<"Kubernetes Sensors", l.gke_nodes_count>> >>)
         \o Block(a, l.gke_containers_count,
                  "Serverless Containers [GKE Autopilot]", p, "",
               << <<"Serverless Containers", l.gke_containers_count>> >>)
    [] f = CLOUD_FUNCTIONS ->
         Block(a, l.count, "Serverless Functions [Cloud Functions]", p, "",
               << <<"Serverless Functions", l.count>> >>)
    [] f = CLOUDRUN ->
         Block(a, l.count, "Serverless Containers [Cloud Run Revisions]", p, "",
               << <<"Serverless Containers", l.count>> >>)
    [] f = BUCKETS ->
         Block(a, Min(l.count, BucketLimit), "Data Buckets", p, "",
               << <<"Data Buckets", Min(l.count, BucketLimit)>> >>)
    [] f = CLOUDSQL ->
         Block(a, l.count, "PaaS Databases [Cloud SQL]", p, "",
               << <<"PaaS Databases", l.count>> >>)
    [] f = SPANNER_INSTANCES ->
         Block(a, l.count, "PaaS Databases [Spanner]", p, "",
               << <<"PaaS Databases", l.count>> >>)
    [] f = BIGQUERY_DATASETS ->
         Block(a, l.count, "Data Warehouses [BigQuery]", p, "",
               << <<"Data Warehouses", l.count>> >>)
    [] f = GCR ->
         Block(a, l.count, "Registry Container Images [GAR]", p, t[3],
               << <<"Registry Container Images", l.count>> >>)

\* the listing is read: client.close() and on to the first block, if any
Finish(t, l) ==
  LET e == Emissions(t, args, l) IN
  /\ locals' = [locals EXCEPT ![t] =
       [l EXCEPT !.emit = e, !.request = 0, !.closed = TRUE]]
  /\ Jump(t, IF e = <<>> THEN "returned" ELSE "progress_print")

\* a progress_print that puts its row at the head of totals_log
ProgressPrintFront(t) ==
  /\ pc[t] = "progress_print"
  /\ totals_log' = <<Head(locals[t].emit).row>> \o totals_log
  /\ Goto(t, "totals_lock")
  /\ UNCHANGED <<inputs, totals, locks, locals, queue, main, remote, report>>

\* progress_print without totals_log_lock: the row of a thread that appends
\* while another thread is about to append is lost
ProgressPrintRacy(t) ==
  /\ pc[t] = "progress_print"
  /\ totals_log' =
       IF \E u \in ProbeThreads \ {t} : pc[u] = "progress_print"
       THEN totals_log
       ELSE Append(totals_log, Head(locals[t].emit).row)
  /\ Goto(t, "totals_lock")
  /\ UNCHANGED <<inputs, totals, locks, locals, queue, main, remote, report>>

\* progress_print: under totals_log_lock the row is appended to totals_log
ProgressPrint(t) ==
  /\ pc[t] = "progress_print"
  /\ totals_log' = Append(totals_log, Head(locals[t].emit).row)
  /\ Goto(t, "totals_lock")
  /\ UNCHANGED <<inputs, totals, locks, locals, queue, main, remote, report>>

\* totals[key] += amount begun without waiting for totals_lock
TotalsLockUnguarded(t) ==
  LET merge == Head(Head(locals[t].emit).merges) IN
  /\ pc[t] = "totals_lock"
  /\ totals_lock' = t
  /\ locals' = [locals EXCEPT ![t].tmp = totals[merge[1]]]
  /\ Goto(t, "totals_write")
  /\ UNCHANGED <<inputs, shared, queue, main, remote, report>>

\* "with totals_lock": the lock is taken when no thread holds it, and the
\* first half of totals[key] += amount reads the current value
TotalsLock(t) ==
  LET merge == Head(Head(locals[t].emit).merges) IN
  /\ pc[t] = "totals_lock"
  /\ totals_lock = NoThread
  /\ totals_lock' = t
  /\ locals' = [locals EXCEPT ![t].tmp = totals[merge[1]]]
  /\ Goto(t, "totals_write")
  /\ UNCHANGED <<inputs, shared, queue, main, remote, report>>

\* a further totals[key] += amount of the same block, first half
TotalsRead(t) ==
  LET merge == Head(Head(locals[t].emit).merges) IN
  /\ pc[t] = "totals_read"
  /\ locals' = [locals EXCEPT ![t].tmp = totals[merge[1]]]
  /\ Goto(t, "totals_write")
  /\ UNCHANGED <<inputs, shared, locks, queue, main, remote, report>>

\* totals[key] = amount in place of totals[key] += amount
TotalsWriteAssign(t) ==
  LET block == Head(locals[t].emit)
      merge == Head(block.merges)
      rest == Tail(block.merges)
      more == Tail(locals[t].emit) IN
  /\ pc[t] = "totals_write"
  /\ totals' = [totals EXCEPT ![merge[1]] = merge[2]]
  /\ IF rest # <<>>
     THEN /\ locals' = [locals EXCEPT
               ![t].emit = <<[block EXCEPT !.merges = rest]>> \o more,
               ![t].tmp = 0]
          /\ Goto(t, "totals_read")
          /\ UNCHANGED totals_lock
     ELSE /\ locals' = [locals EXCEPT ![t].emit = more, ![t].tmp = 0]
          /\ Goto(t, IF more = <<>> THEN "returned" ELSE "progress_print")
          /\ totals_lock' = IF totals_lock = t THEN NoThread ELSE totals_lock
  /\ UNCHANGED <<inputs, totals_log, queue, main, remote, report>>

\* totals[key] += amount, second half: the sum is stored; after the last
\* update of the block the lock is released
TotalsWrite(t) ==
  LET block == Head(locals[t].emit)
      merge == Head(block.merges)
      rest == Tail(block.merges)
      more == Tail(locals[t].emit) IN
  /\ pc[t] = "totals_write"
  /\ totals' = [totals EXCEPT ![merge[1]] = locals[t].tmp + merge[2]]
  /\ IF rest # <<>>
     THEN /\ locals' = [locals EXCEPT
               ![t].emit = <<[block EXCEPT !.merges = rest]>> \o more,
               ![t].tmp = 0]
          /\ Goto(t, "totals_read")
          /\ UNCHANGED totals_lock
     ELSE /\ locals' = [locals EXCEPT ![t].emit = more, ![t].tmp = 0]
          /\ Goto(t, IF more = <<>> THEN "returned" ELSE "progress_print")
          /\ totals_lock' = IF totals_lock = t THEN NoThread ELSE totals_lock
  /\ UNCHANGED <<inputs, totals_log, queue, main, remote, report>>

(* ------------------------------ the probes ---------------------------- *)
\* a probe that takes totals_lock before it builds its client
ProbeStartLocked(t) ==
  /\ pc[t] = "queued"
  /\ CanStart(AccountThread(t[2]), t)
  /\ queue' = [queue EXCEPT ![AccountThread(t[2])] = Tail(@)]
  /\ totals_lock = NoThread
  /\ totals_lock' = t
  /\ \/ /\ locals' = [locals EXCEPT ![t].request = 1]
        /\ Goto(t, "execute")
        /\ UNCHANGED faults
     \/ /\ UNCHANGED locals
        /\ CallErrorPrint(t, t[1], t[2], <<"exception", "build_raises">>,
                          "returned")
        /\ Fault(1)
  /\ UNCHANGED <<inputs, shared, main, remote_log, report>>

\* a worker of the project's pool takes the probe, which opens with a try
\* block: build the client and the first request; on an exception
\* error_print and return
ProbeStart(t) ==
  /\ pc[t] = "queued"
  /\ CanStart(AccountThread(t[2]), t)
  /\ queue' = [queue EXCEPT ![AccountThread(t[2])] = Tail(@)]
  /\ \/ /\ locals' = [locals EXCEPT ![t].request = 1]
        /\ Goto(t, "execute")
        /\ UNCHANGED faults
     \/ /\ UNCHANGED locals
        /\ CallErrorPrint(t, t[1], t[2], <<"exception", "build_raises">>,
                          "returned")
        /\ Fault(1)
  /\ UNCHANGED <<inputs, shared, locks, main, remote_log, report>>

\* the probes whose loop body only counts within the page
CountingProbes ==
  {CLOUD_FUNCTIONS, CLOUDRUN, BUCKETS, CLOUDSQL, BIGQUERY_DATASETS, GKE}

\* a Cloud Run revision: its status conditions
RevisionShapes ==
  { <<[type |-> "ContainerHealthy", status |-> "True"]>>,
    <<[type |-> "ContainerHealthy", status |-> "False"]>>,
    <<[type |-> "Ready", status |-> "True"]>> }

\* a GKE cluster: whether it has an autopilot.enabled entry, and its node
\* pools as [node_count, pods_per_node]
ClusterShapes ==
  { [autopilot |-> "absent", nodePools |-> << <<1, 2>> >>],
    [autopilot |-> "False", nodePools |-> << <<1, 2>> >>],
    [autopilot |-> "True", nodePools |-> <<>>],
    [autopilot |-> "True", nodePools |-> << <<1, 0>> >>],
    [autopilot |-> "True", nodePools |-> << <<1, 2>> >>] }

\* the items a page of the listing of probe f can carry
PageItems(f) ==
  IF f = CLOUDRUN THEN SeqsUpTo(RevisionShapes, mock.items)
  ELSE IF f = GKE THEN SeqsUpTo(ClusterShapes, mock.items)
  ELSE SeqsUpTo({"item"}, mock.items)

\* the loop body of get_gcp_cloudrun_revisions for one page
HealthyContainers(items) ==
  SumSeq([i \in 1..Len(items) |->
    Cardinality({j \in 1..Len(items[i]) :
       items[i][j].type = "ContainerHealthy" /\ items[i][j].status = "True"})])

\* the loop body of get_gcp_gke_clusters for one page: nodes and containers
\* of the autopilot clusters
AutopilotNodes(items) ==
  SumSeq([i \in 1..Len(items) |->
    IF items[i].autopilot = "True"
    THEN SumSeq([j \in 1..Len(items[i].nodePools) |-> items[i].nodePools[j][1]])
    ELSE 0])

AutopilotContainers(items) ==
  SumSeq([i \in 1..Len(items) |->
    IF items[i].autopilot = "True"
    THEN SumSeq([j \in 1..Len(items[i].nodePools) |->
           items[i].nodePools[j][1] * items[i].nodePools[j][2]])
    ELSE 0])

\* a loop body that counts every item of a page twice
ConsumeTwice(f, l, items) == [l EXCEPT !.count = @ + 2 * Len(items)]

\* the locals of probe f after its loop body has read one page
Consume(f, l, items) ==
  IF f = GKE
  THEN [l EXCEPT !.gke_nodes_count = @ + AutopilotNodes(items),
                 !.gke_containers_count = @ + AutopilotContainers(items)]
  ELSE IF f = CLOUDRUN THEN [l EXCEPT !.count = @ + HealthyContainers(items)]
  ELSE [l EXCEPT !.count = @ + Len(items)]

\* the end of a turn of "while request is not None": list_next when the
\* response has a nextPageToken, else request = None.  Outside any try: an
\* exception of list_next leaves the probe.
NextPage(t, l, token, again) ==
  CASE token = "good" ->
         /\ locals' = [locals EXCEPT ![t] = [l EXCEPT !.request = @ + 1]]
         /\ Jump(t, again)
    [] token = "bad" ->
         /\ locals' = [locals EXCEPT ![t] = l]
         /\ Jump(t, "raised")
    [] token = "none" -> Finish(t, l)

\* a counting probe whose failed request ends the listing as if it were
\* the last page
ProbeExecutePartial(t) ==
  LET page == locals[t].request IN
  /\ pc[t] = "execute"
  /\ t[1] \in CountingProbes
  /\ \/ /\ Served(t, "list", page, "error", 0, "none")
        /\ Finish(t, locals[t])
        /\ UNCHANGED errors_log
     \/ \E items \in PageItems(t[1]), token \in Tokens(page) :
          /\ Served(t, "list", page, "ok", Len(items), token)
          /\ NextPage(t, Consume(t[1], locals[t], items), token, "execute")
          /\ UNCHANGED errors_log
  /\ UNCHANGED <<inputs, shared, locks, queue, main, report>>

\* one turn of the loop of a counting probe: execute, count, list_next.
\* request.execute() is outside any try: its exception leaves the probe.
ProbeExecute(t) ==
  LET page == locals[t].request IN
  /\ pc[t] = "execute"
  /\ t[1] \in CountingProbes
  /\ \/ /\ Served(t, "list", page, "error", 0, "none")
        /\ Goto(t, "raised")
        /\ UNCHANGED locals
     \/ \E items \in PageItems(t[1]), token \in Tokens(page) :
          /\ Served(t, "list", page, "ok", Len(items), token)
          /\ NextPage(t, Consume(t[1], locals[t], items), token, "execute")
          /\ UNCHANGED errors_log
  /\ UNCHANGED <<inputs, shared, locks, queue, main, report>>

\* the listings of the probes that look into each item (instances and their
\* disks, Spanner instances and their databases, repositories and their
\* images) are kept shorter than the listings that are only counted
DetailItems == Min(mock.items, RunItems)

DetailTokens(page) ==
  IF page < Min(mock.pages, DetailPages)
  THEN {"none", "good", "bad"} ELSE {"none", "bad"}

(* -------------------- get_gce_instances_and_gke_instances ------------- *)
\* a disk of an instance: not a boot disk ("data"), or a boot disk with what
\* get_disk_image_details finds: a Linux image, a Windows image, an image
\* without description and family, or an exception
DiskKinds == {"data", "linux", "windows", "unknown", "raises"}

\* a compute instance: whether a Databricks tag or label marks it, whether a
\* goog-gke-node label does, and its disks
InstanceShapes ==
  { [databricks |-> "tag", gke_node |-> FALSE, disks |-> <<"linux">>],
    [databricks |-> "label", gke_node |-> FALSE, disks |-> <<"linux">>],
    [databricks |-> "", gke_node |-> TRUE, disks |-> <<"linux">>],
    [databricks |-> "", gke_node |-> FALSE, disks |-> <<>>] }
  \cup {[databricks |-> "", gke_node |-> FALSE, disks |-> <<d>>] : d \in DiskKinds}
  \cup {[databricks |-> "", gke_node |-> FALSE, disks |-> <<"linux", "data">>]}

\* the instances the loop body does not skip
NotDatabricks(items) == SelectSeq(items, LAMBDA i : i.databricks = "")

\* the instances whose disks the loop body looks at
ComputeInstances(items) ==
  SelectSeq(items, LAMBDA i : i.databricks = "" /\ ~i.gke_node)

\* the disks of kind in kinds over the instances of a page
DisksOf(items, kinds) ==
  SumSeq([i \in 1..Len(items) |->
    Cardinality({j \in 1..Len(items[i].disks) : items[i].disks[j] \in kinds})])

\* a compute probe that a failed lookup of get_disk_image_details ends
GceExecuteAborting(t) ==
  LET l == locals[t]
      page == l.request IN
  /\ pc[t] = "execute"
  /\ t[1] = GCE
  /\ \E items \in SeqsUpTo(InstanceShapes, DetailItems),
        token \in DetailTokens(page) :
       LET compute == ComputeInstances(items)
           k == DisksOf(compute, {"raises"})
           counted == [l EXCEPT
             !.instances_count = @ + Len(NotDatabricks(items)),
             !.gke_instances_count = @ + Len(NotDatabricks(items)) - Len(compute),
             !.non_os_disks_count = @ + DisksOf(compute, {"data"}),
             !.linux_instances_count = @ + DisksOf(compute, {"linux", "unknown"})] IN
       /\ remote_log' = [remote_log EXCEPT ![t] =
            LookupsLogged(Logging(@, "list", page, "ok", Len(items), token), k)]
       /\ Fault(k + IF token = "bad" THEN 1 ELSE 0)
       /\ errors_log' = AppendErrors(errors_log,
            [project |-> t[2], function |-> "get_disk_image_details",
             details |-> <<"exception", "get_raises">>], k)
       /\ IF k > 0
          THEN /\ locals' = [locals EXCEPT ![t] = counted]
               /\ Jump(t, "raised")
          ELSE NextPage(t, counted, token, "execute")
  /\ UNCHANGED <<inputs, shared, locks, queue, main, report>>

\* one turn of the while loop: execute, the loop body over the instances of
\* the page, list_next.  get_disk_image_details logs its exception and
\* returns no details, which counts as a Linux image.  execute and list_next
\* are outside any try.
GceExecute(t) ==
  LET l == locals[t]
      page == l.request IN
  /\ pc[t] = "execute"
  /\ t[1] = GCE
  /\ \/ /\ Served(t, "list", page, "error", 0, "none")
        /\ Goto(t, "raised")
        /\ UNCHANGED locals
     \/ \E items \in SeqsUpTo(InstanceShapes, DetailItems),
           token \in DetailTokens(page) :
          LET compute == ComputeInstances(items)
              counted == [l EXCEPT
                !.instances_count = @ + Len(NotDatabricks(items)),
                !.gke_instances_count = @ + Len(NotDatabricks(items)) - Len(compute),
                !.non_os_disks_count = @ + DisksOf(compute, {"data"}),
                !.linux_instances_count =
                   @ + DisksOf(compute, {"linux", "unknown", "raises"})] IN
          /\ remote_log' = [remote_log EXCEPT ![t] =
               LookupsLogged(Logging(@, "list", page, "ok", Len(items), token),
                             DisksOf(compute, {"raises"}))]
          /\ Fault(DisksOf(compute, {"raises"})
                   + IF token = "bad" THEN 1 ELSE 0)
          /\ errors_log' = AppendErrors(errors_log,
               [project |-> t[2], function |-> "get_disk_image_details",
                details |-> <<"exception", "get_raises">>],
               DisksOf(compute, {"raises"}))
          /\ NextPage(t, counted, token, "execute")
  /\ UNCHANGED <<inputs, shared, locks, queue, main, report>>

(* ------------------------ get_gcp_spanner_instances ------------------- *)
InstanceId(p) == "projects/" \o p \o "/instances/i"

\* request.execute() of the instance list
SpannerExecute(t) ==
  LET page == locals[t].request IN
  /\ pc[t] = "execute"
  /\ t[1] = SPANNER_INSTANCES
  /\ \/ /\ Served(t, "list", page, "error", 0, "none")
        /\ Goto(t, "raised")
        /\ UNCHANGED locals
     \/ \E items \in SeqsUpTo({"instance"}, DetailItems), token \in DetailTokens(page) :
          /\ Served(t, "list", page, "ok", Len(items), token)
          /\ locals' = [locals EXCEPT ![t].response = items, ![t].token = token]
          /\ Goto(t, "spanner_instance")
  /\ UNCHANGED <<inputs, shared, locks, queue, main, report>>

\* "for instance in response['instances']": get_gcp_spanner_databases builds
\* its request (on an exception error_print and return 0); after the last
\* instance the end of the turn of the while loop
SpannerInstance(t) ==
  LET l == locals[t] IN
  /\ pc[t] = "spanner_instance"
  /\ IF l.response = <<>>
     THEN NextPage(t, l, l.token, "execute")
          /\ UNCHANGED <<errors_log, remote>>
     ELSE \/ /\ Forget(t, "databases")
             /\ locals' = [locals EXCEPT ![t].db_request = 1,
                                         ![t].database_count = 0]
             /\ Goto(t, "databases_execute")
          \/ /\ UNCHANGED remote_log
             /\ Fault(1)
             /\ locals' = [locals EXCEPT ![t].response = Tail(@)]
             /\ CallErrorPrint(t, "get_gcp_spanner_databases", InstanceId(t[2]),
                               <<"exception", "list_raises">>, "spanner_instance")
  /\ UNCHANGED <<inputs, shared, locks, queue, main, report>>

\* get_gcp_spanner_databases: one turn of its while loop; execute and
\* list_next are outside any try, here and in the caller
DatabasesExecute(t) ==
  LET l == locals[t]
      page == l.db_request IN
  /\ pc[t] = "databases_execute"
  /\ \/ /\ Served(t, "databases", page, "error", 0, "none")
        /\ Goto(t, "raised")
        /\ UNCHANGED locals
     \/ \E n \in 0..DetailItems, token \in DetailTokens(page) :
          /\ Served(t, "databases", page, "ok", n, token)
          /\ CASE token = "good" ->
                    /\ locals' = [locals EXCEPT ![t].database_count = @ + n,
                                                ![t].db_request = page + 1]
                    /\ Goto(t, "databases_execute")
               [] token = "bad" ->
                    /\ locals' = [locals EXCEPT ![t].database_count = @ + n]
                    /\ Goto(t, "raised")
               [] token = "none" ->
                    /\ locals' = [locals EXCEPT
                         ![t].count = @ + l.database_count + n,
                         ![t].database_count = 0,
                         ![t].db_request = 0,
                         ![t].response = Tail(@)]
                    /\ Goto(t, "spanner_instance")
  /\ UNCHANGED <<inputs, shared, locks, queue, main, report>>

(* ---------------------------- get_gcp_gcr_images --------------------- *)
\* request.execute() of the repository list: the DOCKER repositories are
\* collected; execute and list_next are outside any try
GcrExecute(t) ==
  LET l == locals[t]
      page == l.request IN
  /\ pc[t] = "execute"
  /\ t[1] = GCR
  /\ \/ /\ Served(t, "list", page, "error", 0, "none")
        /\ Goto(t, "raised")
        /\ UNCHANGED locals
     \/ \E items \in SeqsUpTo({"DOCKER", "MAVEN"}, DetailItems),
           token \in DetailTokens(page) :
          LET docker == SelectSeq(items, LAMBDA format : format = "DOCKER")
              found == [l EXCEPT !.repositories =
                 @ \o [i \in 1..Len(docker) |-> Len(l.repositories) + i]] IN
          /\ Served(t, "list", page, "ok", Len(items), token)
          /\ CASE token = "good" ->
                    /\ locals' = [locals EXCEPT ![t] = [found EXCEPT !.request = page + 1]]
                    /\ Goto(t, "execute")
               [] token = "bad" ->
                    /\ locals' = [locals EXCEPT ![t] = found]
                    /\ Goto(t, "raised")
               [] token = "none" ->
                    /\ locals' = [locals EXCEPT ![t] = [found EXCEPT !.request = 0]]
                    /\ Goto(t, "repository")
  /\ UNCHANGED <<inputs, shared, locks, queue, main, report>>

\* "for repository in repositories": the dockerImages request is built in a
\* try whose except logs and continues with the next repository; after the
\* last repository client.close() and the trailing block
GcrRepository(t) ==
  LET l == locals[t] IN
  /\ pc[t] = "repository"
  /\ IF l.repositories = <<>>
     THEN Finish(t, l) /\ UNCHANGED <<errors_log, remote>>
     ELSE \/ /\ Forget(t, "dockerImages")
             /\ locals' = [locals EXCEPT
                  ![t].container_registry_images_in_repository = 0,
                  ![t].request = 1, ![t].response = <<>>]
             /\ Goto(t, "images_execute")
          \/ /\ UNCHANGED remote_log
             /\ Fault(1)
             /\ locals' = [locals EXCEPT
                  ![t].container_registry_images_in_repository = 0,
                  ![t].repositories = Tail(@)]
             /\ CallErrorPrint(t, GCR, t[2], <<"exception", "list_raises">>,
                               "repository")
  /\ UNCHANGED <<inputs, shared, locks, queue, main, report>>

\* a docker image: whether it has a 'tags' entry and how many tags
ImageShapes ==
  {[has_tags |-> FALSE, tags |-> 0]}
  \cup {[has_tags |-> TRUE, tags |-> n] : n \in mock.tags}

\* the pages of a dockerImages listing: the items and the cursor.  A cursor
\* from which list_next raises comes with an empty page here, so that the
\* counter of a page read again and again stays bounded.
ImagePages(page) ==
  {r \in [items : SeqsUpTo(ImageShapes, DetailItems), token : DetailTokens(page)] :
     r.token = "bad" => r.items = <<>>}

\* what the loop body adds to container_registry_images_in_repository
ImagesCounted(a, items) ==
  SumSeq([i \in 1..Len(items) |->
    IF items[i].has_tags THEN Min(a.max_image_tags, items[i].tags) ELSE 1])

\* one turn of the dockerImages loop, first half: execute, outside any try,
\* and the loop body.  A request that is executed again (see GcrImagesNext)
\* is answered as before.
GcrImagesExecute(t) ==
  LET l == locals[t]
      page == l.request
      again == l.response # <<>> IN
  /\ pc[t] = "images_execute"
  /\ \/ /\ ~again
        /\ Served(t, "dockerImages", page, "error", 0, "none")
        /\ Goto(t, "raised")
        /\ UNCHANGED locals
     \/ \E r \in IF again THEN {l.response[1]} ELSE ImagePages(page) :
          /\ Logged(t, "dockerImages", page, "ok", Len(r.items), r.token)
          /\ Fault(IF r.token = "bad" /\ ~again THEN 1 ELSE 0)
          /\ locals' = [locals EXCEPT
               ![t].container_registry_images_in_repository =
                  @ + ImagesCounted(args, r.items),
               ![t].response = <<r>>]
          /\ Goto(t, "images_next")
  /\ UNCHANGED <<inputs, shared, locks, queue, main, report>>

\* one turn of the dockerImages loop, second half.  list_next is in a try
\* whose except logs and continues the while loop: request is unchanged, so
\* the same request is executed again.  After the last page the count of the
\* repository is limited and added.
GcrImagesNext(t) ==
  LET l == locals[t]
      r == l.response[1]
      limited == Min(l.container_registry_images_in_repository,
                     RegistryImageLimit) IN
  /\ pc[t] = "images_next"
  /\ CASE r.token = "good" ->
            /\ locals' = [locals EXCEPT ![t].request = @ + 1,
                                        ![t].response = <<>>]
            /\ Goto(t, "images_execute")
       [] r.token = "bad" ->
            /\ UNCHANGED locals
            /\ CallErrorPrint(t, GCR, t[2], <<"exception", "list_next_raises">>,
                              "images_execute")
       [] r.token = "none" ->
            /\ locals' = [locals EXCEPT
                 ![t].count = @ + limited,
                 ![t].container_registry_images_in_repository = limited,
                 ![t].request = 0, ![t].response = <<>>,
                 ![t].repositories = Tail(@)]
            /\ Goto(t, "repository")
  /\ UNCHANGED <<inputs, shared, locks, queue, main, remote, report>>

(* ------------------------------ the system ---------------------------- *)
\* a step of main
MainStep ==
  \/ MainSubmit
  \/ \E p \in AllProjects : MainCollect(p)
  \/ OutputResults

\* a step of get_gcp_resources
AccountStep(p) ==
  \/ AccountStart(p)
  \/ ServicesExecute(p)
  \/ ServicesClose(p)
  \/ RegionsExecute(p)
  \/ CheckServices(p)
  \/ Shutdown(p)

\* a step of the trailing blocks of a probe
EmitStep(t) ==
  \/ ProgressPrint(t)
  \/ TotalsLock(t)
  \/ TotalsRead(t)
  \/ TotalsWrite(t)

\* a step of get_gcp_spanner_instances
SpannerStep(t) ==
  \/ SpannerExecute(t)
  \/ SpannerInstance(t)
  \/ DatabasesExecute(t)

\* a step of get_gcp_gcr_images
GcrStep(t) ==
  \/ GcrExecute(t)
  \/ GcrRepository(t)
  \/ GcrImagesExecute(t)
  \/ GcrImagesNext(t)

\* a run of the script in parallel mode over projects whose enabled services
\* are among RunServices
Next ==
  \/ MainStep
  \/ \E p \in AllProjects : AccountStep(p)
  \/ \E t \in ProbeThreads : ProbeStart(t)
  \/ \E t \in ProbeThreads : ProbeExecute(t)
  \/ \E t \in ProbeThreads : GceExecute(t)
  \/ \E t \in ProbeThreads : EmitStep(t)

Spec == Init /\ [][Next]_vars

\* a step of the interrupt signal
SignalStep ==
  \/ SignalHandler
  \/ ExecutorExit

\* a parallel run of the script with one worker, which SIGINT can interrupt
InitInterrupt ==
  \E a \in [max_workers : {1}, verbose_mode : {FALSE}, images_mode : {FALSE},
             max_image_tags : {1}],
     n \in 0..NumAccounts :
    Start(a @@ Parallel, n, RunServices)

NextInterrupt ==
  \/ MainStep
  \/ SignalStep
  \/ \E p \in AllProjects : AccountStep(p)
  \/ \E t \in ProbeThreads : ProbeStart(t)
  \/ \E t \in ProbeThreads : ProbeExecute(t)
  \/ \E t \in ProbeThreads : GceExecute(t)
  \/ \E t \in ProbeThreads : EmitStep(t)

InterruptSpec == InitInterrupt /\ [][NextInterrupt]_vars

\* the services the project of a dispatch run can have enabled
DispatchServices == {COMPUTE, FUNCTIONS, ARTIFACTREGISTRY}

\* a run of the script over one project, parallel or with --debug, with or
\* without --images, where the remote lists up to MaxRegions regions
InitDispatch ==
  \E a \in [max_workers : 1..MaxWorkers, verbose_mode : {FALSE},
             images_mode : BOOLEAN, max_image_tags : {1},
             debug_mode : BOOLEAN, data_mode : {FALSE},
             input_projects : {FALSE}, input_excluded_folders : {FALSE}] :
    StartWith(a, 1, DispatchServices, Regions)

NextDispatch ==
  \/ MainStep
  \/ MainDebug
  \/ \E p \in AllProjects : AccountStep(p)
  \/ \E p \in AllProjects : DebugCall(p)
  \/ \E t \in ProbeThreads : ProbeStart(t)
  \/ \E t \in ProbeThreads : ProbeExecute(t)
  \/ \E t \in ProbeThreads : GceExecute(t)
  \/ \E t \in ProbeThreads : GcrStep(t)
  \/ \E t \in ProbeThreads : EmitStep(t)

DispatchSpec == InitDispatch /\ [][NextDispatch]_vars

\* a step of get_gcp_gcr_images
ImagesStep(t) ==
  \/ ProbeStart(t)
  \/ GcrStep(t)
  \/ ProgressPrint(t)
  \/ TotalsLock(t)
  \/ TotalsWrite(t)

\* one call of get_gcp_gcr_images with --images, where --max-image-tags is 1
\* or the largest value the script accepts and an image has up to
\* MaxImageTagsLimit tags
InitImages ==
  /\ args \in {a @@ Parallel :
                 a \in [max_workers : {1}, verbose_mode : BOOLEAN,
                        images_mode : {TRUE},
                        max_image_tags : {1, MaxImageTagsLimit}]}
  /\ projects = <<ProjectIds[1]>>
  /\ totals = InitTotals
  /\ totals_log = <<>>
  /\ errors_log = <<>>
  /\ totals_lock = NoThread
  /\ LET t == ProbeThread(GCR, ProjectIds[1], RegionNames[1]) IN
       /\ pc = [u \in Threads |-> IF u = t THEN "queued" ELSE "absent"]
       /\ queue = [u \in {MainThread} \cup AccountThreads |->
            IF u = AccountThread(ProjectIds[1]) THEN <<t>> ELSE <<>>]
  /\ locals = [t \in AccountThreads \cup ProbeThreads |->
                 IF t \in AccountThreads THEN AccountLocals ELSE ProbeLocals]
  /\ main = InitMain
  /\ remote_log = [t \in Threads |-> <<>>]
  /\ faults = 0
  /\ mock = [pages |-> MaxPages, items |-> MaxItems, log |-> TRUE,
             services |-> {}, regions |-> RunRegionNames,
             tags |-> (0..MaxImageTags) \cup {MaxImageTagsLimit},
             clock |-> {1}, files |-> {}, listed |-> 1]
  /\ report = [written |-> FALSE]

NextImages == \E t \in ProbeThreads : ImagesStep(t)

ImagesSpec == InitImages /\ [][NextImages]_vars

\* a step of main in debug mode
MainDebugStep ==
  \/ MainDebug
  \/ OutputResults

\* a step of get_gcp_resources in debug mode
AccountDebugStep(p) ==
  \/ AccountStart(p)
  \/ ServicesExecute(p)
  \/ ServicesClose(p)
  \/ RegionsExecute(p)
  \/ CheckServices(p)
  \/ DebugCall(p)

\* the services the projects of a debug run can have enabled
DebugServices == {COMPUTE, FUNCTIONS, STORAGE}

\* a run of the script with --debug, with or without --data
InitDebug ==
  \E a \in [max_workers : {1}, verbose_mode : {FALSE}, images_mode : {FALSE},
             max_image_tags : {1}, debug_mode : {TRUE}, data_mode : BOOLEAN,
             input_projects : {FALSE}, input_excluded_folders : {FALSE}],
     n \in 0..NumAccounts :
    Start(a, n, DebugServices)

NextDebug ==
  \/ MainDebugStep
  \/ \E p \in AllProjects : AccountDebugStep(p)
  \/ \E t \in ProbeThreads : ProbeStart(t)
  \/ \E t \in ProbeThreads : ProbeExecute(t)
  \/ \E t \in ProbeThreads : GceExecute(t)
  \/ \E t \in ProbeThreads : EmitStep(t)

DebugSpec == InitDebug /\ [][NextDebug]_vars

\* the services of a project with buckets
DataServices == {COMPUTE, STORAGE_API}

\* a parallel run of the script without --data over one project
InitData ==
  \E a \in [max_workers : 1..MaxWorkers, verbose_mode : {FALSE},
             images_mode : {FALSE}, max_image_tags : {1}] :
    Start(a @@ Parallel, 1, DataServices)

DataSpec == InitData /\ [][Next]_vars

\* a step of main from the command line to the report
MainStartStep ==
  \/ ParseArgs
  \/ MainProjects
  \/ MainStep

\* a step of get_gcp_resources for a project without enabled services
AccountSkipStep(p) ==
  \/ AccountStart(p)
  \/ ServicesExecute(p)
  \/ ServicesClose(p)
  \/ CheckServices(p)

\* the script from its command line on, in parallel mode, over projects
\* without enabled services, at any reading of the clock
InitStart ==
  /\ args \in [max_workers : (0..MaxWorkers) \cup {MaxWorkersLimit + 1},
               verbose_mode : {FALSE}, images_mode : {FALSE},
               max_image_tags : {0, 1, MaxImageTagsLimit + 1},
               debug_mode : {FALSE}, data_mode : {FALSE},
               input_projects : BOOLEAN, input_excluded_folders : BOOLEAN]
  /\ projects = <<>>
  /\ totals = InitTotals
  /\ totals_log = <<>>
  /\ errors_log = <<>>
  /\ totals_lock = NoThread
  /\ pc = [t \in Threads |-> IF t = MainThread THEN "parse_args" ELSE "absent"]
  /\ locals = [t \in AccountThreads \cup ProbeThreads |->
                 IF t \in AccountThreads THEN AccountLocals ELSE ProbeLocals]
  /\ queue = [t \in {MainThread} \cup AccountThreads |-> <<>>]
  /\ main = InitMain
  /\ remote_log = [t \in Threads |-> <<>>]
  /\ faults = 0
  /\ \E files \in SUBSET {excluded_folders_file, input_file},
        listed \in 0..NumAccounts :
       mock = [pages |-> RunPages, items |-> RunItems, log |-> FALSE,
               services |-> {}, regions |-> RunRegionNames,
               tags |-> 0..MaxImageTags, clock |-> 0..MaxElapsed,
               files |-> files, listed |-> listed]
  /\ report = [written |-> FALSE]

NextStart ==
  \/ MainStartStep
  \/ \E p \in AllProjects : AccountSkipStep(p)

StartSpec == InitStart /\ [][NextStart]_vars

\* one probe function called on its own for one project (and region), with
\* a remote that keeps its log of requests
InitProbe ==
  /\ args \in {a @@ Parallel :
                 a \in {b \in [max_workers : {1}, verbose_mode : BOOLEAN,
                                images_mode : BOOLEAN,
                                max_image_tags : 1..MaxImageTags] :
                          ~b.images_mode => b.max_image_tags = 1}}
  /\ projects = <<ProjectIds[1]>>
  /\ totals = InitTotals
  /\ totals_log = <<>>
  /\ errors_log = <<>>
  /\ totals_lock = NoThread
  /\ \E t \in {u \in ProbeThreads :
                 u[2] = ProjectIds[1] /\ u[3] \in {""} \cup RunRegionNames} :
       /\ pc = [u \in Threads |-> IF u = t THEN "queued" ELSE "absent"]
       /\ queue = [u \in {MainThread} \cup AccountThreads |->
            IF u = AccountThread(ProjectIds[1]) THEN <<t>> ELSE <<>>]
  /\ locals = [t \in AccountThreads \cup ProbeThreads |->
                 IF t \in AccountThreads THEN AccountLocals ELSE ProbeLocals]
  /\ main = InitMain
  /\ remote_log = [t \in Threads |-> <<>>]
  /\ faults = 0
  /\ mock = [pages |-> MaxPages, items |-> MaxItems, log |-> TRUE,
             services |-> {}, regions |-> RunRegionNames,
             tags |-> 0..MaxImageTags, clock |-> {1}, files |-> {},
             listed |-> 1]
  /\ report = [written |-> FALSE]

NextProbe ==
  \/ \E t \in ProbeThreads : ProbeStart(t)
  \/ \E t \in ProbeThreads : ProbeExecute(t)
  \/ \E t \in ProbeThreads : GceExecute(t)
  \/ \E t \in ProbeThreads : SpannerStep(t)
  \/ \E t \in ProbeThreads : GcrStep(t)
  \/ \E t \in ProbeThreads : EmitStep(t)

ProbeSpec == InitProbe /\ [][NextProbe]_vars

\* a run of the script with --images over one project whose registry is
\* scanned
InitLive ==
  \E a \in [max_workers : 1..MaxWorkers, verbose_mode : {FALSE},
             images_mode : {TRUE}, max_image_tags : {1}] :
    Start(a @@ Parallel, 1, RegistryServices)

NextLive ==
  \/ MainStep
  \/ \E p \in AllProjects : AccountStep(p)
  \/ \E t \in ProbeThreads : ProbeStart(t)
  \/ \E t \in ProbeThreads : GceExecute(t)
  \/ \E t \in ProbeThreads : GcrStep(t)
  \/ \E t \in ProbeThreads : EmitStep(t)

\* every thread that can take a step is scheduled
Fairness ==
  /\ WF_vars(MainStep)
  /\ \A p \in AllProjects : WF_vars(AccountStep(p))
  /\ \A t \in ProbeThreads :
       WF_vars(ProbeStart(t) \/ GceExecute(t) \/ GcrStep(t) \/ EmitStep(t))

LiveSpec == InitLive /\ [][NextLive]_vars /\ Fairness

(* ------------------------------ properties ---------------------------- *)
\* the probes that read their listing to the end and reached their trailing
\* blocks: their counters give what they print and add
ClosedProbes == {t \in ProbeThreads : locals[t].closed}

\* what probe t adds to totals[r]
Recorded(t, r) ==
  LET e == Emissions(t, args, locals[t]) IN
  SumSeq([i \in 1..Len(e) |->
    SumSeq([j \in 1..Len(e[i].merges) |->
      IF e[i].merges[j][1] = r THEN e[i].merges[j][2] ELSE 0])])

RECURSIVE TotalFor(_, _)
TotalFor(S, r) ==
  IF S = {} THEN 0
  ELSE LET t == CHOOSE x \in S : TRUE IN Recorded(t, r) + TotalFor(S \ {t}, r)

\* the rows of probe t
RowsOf(t) ==
  LET e == Emissions(t, args, locals[t]) IN [i \in 1..Len(e) |-> e[i].row]

\* how often row x is in a log, and how often the closed probes print it
TimesIn(log, x) == Cardinality({i \in 1..Len(log) : log[i] = x})

TimesPrinted(x) ==
  Cardinality({ti \in ClosedProbes \X (1..2) :
     ti[2] <= Len(RowsOf(ti[1])) /\ RowsOf(ti[1])[ti[2]] = x})

AllRows ==
  UNION {{RowsOf(t)[i] : i \in 1..Len(RowsOf(t))} : t \in ClosedProbes}

\* every project task and every probe has finished
Quiescent ==
  /\ pc[MainThread] # "submit"
  /\ \A t \in AccountThreads \cup ProbeThreads :
       pc[t] \in {"absent", "returned", "raised"}

\* C1: at quiescence of a parallel run, for every resource type r, totals[r]
\* is exactly the sum of what the probes that reached their trailing blocks
\* added for r, whatever the interleaving and the pool size: no update is
\* lost or applied twice.
C1_TotalsAreSums ==
  Quiescent => \A r \in ResourceTypes : totals[r] = TotalFor(ClosedProbes, r)

\* two probes have added positive counts to the same total
C1_Witness ==
  /\ Quiescent
  /\ args.max_workers > 1
  /\ \E t, u \in ClosedProbes :
       /\ t # u
       /\ Recorded(t, "Virtual Machines") > 0
       /\ Recorded(u, "Virtual Machines") > 0

\* C2: in parallel mode, when a page request of a probe raises, an error
\* record of that probe's project is appended to errors_log.
C2_RaisedProbeIsLogged ==
  \A t \in ProbeThreads :
    pc[t] = "raised" /\ pc[AccountThread(t[2])] = "returned"
      => \E i \in 1..Len(errors_log) : errors_log[i].project = t[2]

\* C3: every pagination loop ends when a step fails: no request is issued
\* again after a failure, so the remote never serves the same page of the
\* same listing twice.
C3_NoRequestTwice ==
  \A t \in ProbeThreads :
    \A i, j \in 1..Len(remote_log[t]) :
      i # j => \/ remote_log[t][i].walk # remote_log[t][j].walk
               \/ remote_log[t][i].page # remote_log[t][j].page

\* the probes that count the items of their pages one by one
PlainProbes == {CLOUD_FUNCTIONS, BUCKETS, CLOUDSQL, BIGQUERY_DATASETS}

\* the sizes of the pages the remote served to t
PageSizes(t) == [i \in 1..Len(remote_log[t]) |-> remote_log[t][i].n]

\* C4: a listing of n pages, each but the last with a continuation cursor,
\* is read with exactly n requests, one per page in order, and every item
\* of every page is counted exactly once.
C4_EveryPageOnce ==
  \A t \in ClosedProbes :
    t[1] \in PlainProbes =>
      LET log == remote_log[t] IN
      /\ Len(log) >= 1
      /\ \A i \in 1..Len(log) :
           /\ log[i].page = i
           /\ log[i].status = "ok"
           /\ (log[i].token = "good") = (i < Len(log))
      /\ locals[t].count = SumSeq(PageSizes(t))

\* get_gcp_buckets has read three pages of 2, 2 and 1 buckets
C4_Witness ==
  \E t \in ClosedProbes :
    /\ t[1] = BUCKETS
    /\ PageSizes(t) = <<2, 2, 1>>
    /\ locals[t].count = 5
    /\ pc[t] = "returned"

\* the remote has failed a page request of t
PageFailed(t) ==
  \E i \in 1..Len(remote_log[t]) :
    /\ remote_log[t][i].walk # "disks"
    /\ remote_log[t][i].status = "error"

\* C5: a probe one of whose page requests failed adds nothing to totals and
\* no row to totals_log, the pages it had read before included.
C5_FailedProbeAddsNothing ==
  \A t \in ProbeThreads :
    PageFailed(t) => totals = InitTotals /\ totals_log = <<>>

\* the second page request of get_gcp_buckets failed after a first page
\* with buckets
C5_Witness ==
  \E t \in ProbeThreads :
    /\ t[1] = BUCKETS
    /\ pc[t] = "raised"
    /\ locals[t].count > 0
    /\ Len(remote_log[t]) = 2
    /\ remote_log[t][2].status = "error"

\* C6: when get_gcp_resources returns, every probe it submitted has run to
\* its end, a raised sibling notwithstanding, and the rows of the probes
\* that reached their trailing blocks are in totals_log.
C6_SiblingsComplete ==
  \A p \in AllProjects :
    LET futures == locals[AccountThread(p)].futures IN
    pc[AccountThread(p)] = "returned" =>
      \A i \in 1..Len(futures) :
        /\ Finished(futures[i])
        /\ locals[futures[i]].closed =>
             \A k \in 1..Len(RowsOf(futures[i])) :
               TimesIn(totals_log, RowsOf(futures[i])[k]) = 1

\* one probe of a project raised and a sibling recorded its result
C6_Witness ==
  \E p \in AllProjects :
    LET futures == locals[AccountThread(p)].futures IN
    /\ pc[AccountThread(p)] = "returned"
    /\ \E i, j \in 1..Len(futures) :
         /\ pc[futures[i]] = "raised"
         /\ locals[futures[j]].closed
         /\ RowsOf(futures[j]) # <<>>
         /\ TimesIn(totals_log, RowsOf(futures[j])[1]) = 1

\* C7: the totals and the rows (as a multiset) of the report are those of
\* the probes' results alone: a pool of one worker and a larger pool yield
\* the same report from the same results.
C7_PoolSizeIndependent ==
  pc[MainThread] = "returned" =>
    /\ report.totals = [r \in ResourceTypes |-> TotalFor(ClosedProbes, r)]
    /\ \A x \in AllRows \cup {report.totals_log[i] :
                                 i \in 1..Len(report.totals_log)} :
         TimesIn(report.totals_log, x) = TimesPrinted(x)

\* the report of a run with the larger pool holds rows of two projects
C7_Witness ==
  /\ pc[MainThread] = "returned"
  /\ args.max_workers = MaxWorkers
  /\ \E i, j \in 1..Len(report.totals_log) :
       report.totals_log[i][3] # report.totals_log[j][3]

\* the records main appended for project p
ScanErrors(p) ==
  {i \in 1..Len(errors_log) :
     /\ errors_log[i].function = "main"
     /\ errors_log[i].details = <<"Exception scanning", p>>}

\* C8: when the get_gcp_resources task of a project raises, main catches the
\* exception and appends exactly one error record naming that project, and
\* none for a project whose task returned.
C8_AccountRaiseLoggedOnce ==
  \A p \in AllProjects :
    Cardinality(ScanErrors(p)) =
      IF p \in main.collected /\ pc[AccountThread(p)] = "raised" THEN 1 ELSE 0

\* main has collected a project task that raised
C8_Witness ==
  \E p \in main.collected :
    /\ pc[AccountThread(p)] = "raised"
    /\ Cardinality(ScanErrors(p)) = 1

\* C9: a project task that raises does not stop the others: when main
\* leaves its loop every submitted project task has been started and has
\* run to its end.
C9_OthersComplete ==
  report.written =>
    \A i \in 1..Len(projects) : Finished(AccountThread(projects[i]))

\* one project task raised, another ran its probes and returned
C9_Witness ==
  /\ report.written
  /\ \E p, q \in AllProjects :
       /\ pc[AccountThread(p)] = "raised"
       /\ pc[AccountThread(q)] = "returned"
       /\ locals[AccountThread(q)].futures # <<>>

\* C10: whatever fails, the run reaches output_results and the report is
\* written.
C10_ReportProduced == <>(report.written)

\* the project tasks whose end main has seen: the futures as_completed has
\* yielded, or in debug mode the calls of the loop that have ended
Completions ==
  IF args.debug_mode
  THEN {projects[i] : i \in 1..Min(main.idx - 1, Len(projects))}
  ELSE main.collected

\* C11: in parallel and in debug mode, every project task that has ended,
\* returned or raised, has added exactly one to completed_count.
C11_CountedOnce == main.completed_count = Cardinality(Completions)

\* probe t failed: a page request raised, or the build of its client or of
\* its first request raised and was logged
ProbeFailed(t) ==
  \/ pc[t] = "raised"
  \/ \E i \in 1..Len(errors_log) :
       errors_log[i] = [project |-> t[2], function |-> t[1],
                        details |-> <<"exception", "build_raises">>]

\* C13: in debug mode, when a probe of a project fails, no later probe of
\* that project is called and get_gcp_resources does not return normally.
C13_HaltsAtFirstFailure ==
  args.debug_mode =>
    \A p \in AllProjects :
      LET calls == locals[AccountThread(p)].futures IN
      \A i \in 1..Len(calls) :
        ProbeFailed(calls[i]) =>
          /\ \A j \in (i + 1)..Len(calls) : pc[calls[j]] = "absent"
          /\ pc[AccountThread(p)] # "returned"

\* the probes of the data-security counts
DataProbes == {BUCKETS, CLOUDSQL, SPANNER_INSTANCES, BIGQUERY_DATASETS}

\* C19: in a run without --data no data-security probe is ever called and
\* the totals of Data Buckets, PaaS Databases and Data Warehouses stay 0.
C19_NoDataProbesWithoutData ==
  ~args.data_mode =>
    /\ \A t \in ProbeThreads : t[1] \in DataProbes => pc[t] = "absent"
    /\ \A r \in {"Data Buckets", "PaaS Databases", "Data Warehouses"} :
         totals[r] = 0

\* the members of a sequence
Range(s) == {s[i] : i \in 1..Len(s)}

\* C20: the probes called for a project are those the other branch of
\* get_gcp_resources would call for the same enabled services.
C20_SameProbesInBothModes ==
  \A p \in AllProjects :
    LET l == locals[AccountThread(p)] IN
    l.futures # <<>> =>
      Range(DebugProbes(p, args, l.service_list, l.regions_list))
        = Range(ParallelProbes(p, args, l.service_list, l.regions_list))

\* C12: completed_count never decreases from one state to the next and is
\* at most the number of projects.
C12_CompletedCountMonotone ==
  [][/\ main'.completed_count >= main.completed_count
     /\ main'.completed_count <= Len(projects')]_vars

\* every project of a run of NumAccounts projects is counted, one of them
\* through the except clause
C12_Witness ==
  /\ Len(projects) = NumAccounts
  /\ main.completed_count = NumAccounts
  /\ \E p \in main.collected : pc[AccountThread(p)] = "raised"
  /\ \E p \in main.collected : pc[AccountThread(p)] = "returned"

\* the command line or the files it names are wrong
ConfigError ==
  \/ args.max_image_tags < 1 \/ args.max_image_tags > MaxImageTagsLimit
  \/ args.max_workers < 1 \/ args.max_workers > MaxWorkersLimit
  \/ args.input_excluded_folders /\ excluded_folders_file \notin mock.files
  \/ args.input_projects /\ input_file \notin mock.files

\* C16: on a configuration error no project task is ever dispatched and the
\* process exits with a non-zero status.
C16_ConfigErrorExitsNonZero ==
  ConfigError =>
    /\ \A t \in AccountThreads : pc[t] = "absent"
    /\ pc[MainThread] \in {"parse_args", "main", "exited"}
    /\ pc[MainThread] = "exited" => main.exit_status # 0

\* C17: every progress snapshot reports the share 100 * k / n of the k
\* completions counted so far out of n projects, and there is one snapshot
\* for every project task that returned.
C17_PercentageIsShare ==
  /\ Len(main.progress)
       = Cardinality({p \in main.collected : pc[AccountThread(p)] = "returned"})
  /\ \A i \in 1..Len(main.progress) :
       LET q == main.progress[i] IN
       /\ q.total = Len(projects)
       /\ q.completed \in i..Cardinality(main.collected)
       /\ i > 1 => main.progress[i - 1].completed < q.completed
       /\ q.percentage[1] * q.total = 100 * q.completed * q.percentage[2]

\* two of two projects returned: snapshots of 50 % and of 100 %
C17_Witness ==
  /\ Len(main.progress) = 2
  /\ main.progress[1].completed = 1 /\ main.progress[1].total = 2
  /\ main.progress[1].percentage = <<100, 2>>
  /\ main.progress[2].percentage = <<200, 2>>

\* C18: rate and remaining time are 0 when the elapsed time is 0 or the
\* rate is 0, and no division of the progress or end-of-run computations
\* divides by zero.
C18_NoDivisionByZero ==
  /\ main.exception # "ZeroDivisionError"
  /\ \A i \in 1..Len(main.progress) :
       LET q == main.progress[i] IN
       /\ q.elapsed = 0 => q.rate = Zero
       /\ q.rate[1] = 0 => q.remaining = Zero

(* C14: once the interrupt signal has arrived while the accounts were being
   scanned, no report (summary, log or errors file) is written, in any
   later state *)
C14_NoReportAfterInterrupt == main.interrupted => ~report.written

\* the signal arrived after a probe had added to the totals, the process has
\* ended, and nothing was written
C14_Witness ==
  /\ main.interrupted
  /\ pc[MainThread] = "exited"
  /\ \E r \in ResourceTypes : totals[r] > 0
  /\ ~report.written

(* C15: after the interrupt signal of a parallel run no queued project task
   is started: the process ends without draining main's pool *)
C15_ExitsWithoutDraining ==
  [][main.interrupted =>
       \A t \in AccountThreads : pc[t] = "queued" => pc'[t] = "queued"]_vars

\* the total a row of totals_log counts for: the first key its block adds to
RowType(row) ==
  CASE row[1] = "Virtual Machines [Compute]" -> "Virtual Machines"
    [] row[1] = "Container Hosts [GKE]" -> "Container Hosts"
    [] row[1] = "Kubernetes Sensors [GKE Autopilot]" -> "Kubernetes Sensors"
    [] row[1] = "Serverless Containers [GKE Autopilot]" ->
         "Serverless Containers"
    [] row[1] = "Serverless Functions [Cloud Functions]" ->
         "Serverless Functions"
    [] row[1] = "Serverless Containers [Cloud Run Revisions]" ->
         "Serverless Containers"
    [] row[1] = "Data Buckets" -> "Data Buckets"
    [] row[1] = "PaaS Databases [Cloud SQL]" -> "PaaS Databases"
    [] row[1] = "PaaS Databases [Spanner]" -> "PaaS Databases"
    [] row[1] = "Data Warehouses [BigQuery]" -> "Data Warehouses"
    [] row[1] = "Registry Container Images [GAR]" ->
         "Registry Container Images"

\* the sum of the counts of the rows of totals_log that count for r
RowsTotal(r) ==
  SumSeq([i \in 1..Len(totals_log) |->
            IF RowType(totals_log[i]) = r THEN totals_log[i][2] ELSE 0])

\* the totals that only the blocks printing a row of their type add to
\* ("Kubernetes Sensors" is also added to by the "Container Hosts [GKE]"
\* block, "Non-OS Disks" and "Virtual Machine Sensors" have no row)
RowTypes ==
  {"Virtual Machines", "Container Hosts", "Serverless Functions",
   "Serverless Containers", "Data Buckets", "PaaS Databases",
   "Data Warehouses", "Registry Container Images"}

(* C21: whenever no thread is inside a critical section, totals_log and
   totals reflect the same probe results: for every resource type, the
   counts of the rows in totals_log add up to the total *)
C21_LogAndTotalsAgree ==
  totals_lock = NoThread => \A r \in RowTypes : totals[r] = RowsTotal(r)

(* C22: when get_gcp_resources of a project has ended, and when main has
   taken its future from as_completed and counted it, none of the probe
   tasks it submitted is queued or running *)
C22_ReturnsAfterJoin ==
  \A p \in AllProjects :
    (Finished(AccountThread(p)) \/ p \in main.collected) =>
      \A t \in TasksOf(AccountThread(p)) : pc[t] = "absent" \/ Finished(t)

\* main has counted a project whose get_gcp_resources submitted two probes
C22_Witness ==
  \E p \in main.collected :
    /\ main.completed_count > 0
    /\ Len(locals[AccountThread(p)].futures) > 1
    /\ \A i \in 1..Len(locals[AccountThread(p)].futures) :
         Finished(locals[AccountThread(p)].futures[i])

\* the tasks of a pool that a worker is executing
Executing(owner) == {t \in TasksOf(owner) : Running(t)}

(* C23: at every moment of a parallel run at most max_workers project tasks
   are executing, and for each project at most max_workers of its probe
   tasks; the tasks beyond that are queued *)
C23_PoolsAreBounded ==
  \A owner \in {MainThread} \cup AccountThreads :
    /\ Cardinality(Executing(owner)) <= args.max_workers
    /\ \A i \in 1..Len(queue[owner]) : pc[queue[owner][i]] = "queued"

\* with one worker per pool, a project task waits queued while another is
\* executing, and of the executing project's probes one is executing and one
\* waits queued
C23_Witness ==
  /\ args.max_workers = 1
  /\ Cardinality(Executing(MainThread)) = 1
  /\ queue[MainThread] # <<>>
  /\ \E p \in AllProjects :
       /\ Cardinality(Executing(AccountThread(p))) = 1
       /\ queue[AccountThread(p)] # <<>>

\* thread t is at a request.execute() or a list_next of one of its listings
InRemoteCall(t) ==
  pc[t] \in {"services_execute", "regions_execute", "execute",
             "spanner_instance", "databases_execute", "repository",
             "images_execute", "images_next"}

(* C24: no lock is held while its holder makes a remote call: the thread
   holding totals_lock is inside "totals[key] += amount" and nowhere else
   (the appends under totals_log_lock and errors_log_lock are single steps
   that make no request) *)
C24_NoLockAcrossRemoteCall ==
  \A t \in Threads :
    totals_lock = t =>
      /\ ~InRemoteCall(t)
      /\ pc[t] \in {"totals_read", "totals_write"}

\* a probe holds totals_lock while another probe is at a remote call
C24_Witness ==
  \E t, u \in ProbeThreads :
    /\ totals_lock = t
    /\ pc[t] = "totals_write"
    /\ u # t
    /\ InRemoteCall(u)

\* the call of t has begun and has not ended
Active(t) == pc[t] \notin {"absent", "returned", "raised"}

(* C25: in debug mode at most one get_gcp_resources call and at most one
   probe call are in progress at any time; a probe is called only when the
   probes before it in its project have ended, and a project is scanned
   only when the projects before it have ended *)
C25_OneAtATime ==
  /\ Cardinality({t \in AccountThreads : Active(t)}) <= 1
  /\ Cardinality({t \in ProbeThreads : Active(t)}) <= 1
  /\ \A i, j \in 1..Len(projects) :
       i < j /\ pc[AccountThread(projects[j])] # "absent" =>
         Finished(AccountThread(projects[i]))
  /\ \A p \in AllProjects :
       LET futures == locals[AccountThread(p)].futures IN
       \A i, j \in 1..Len(futures) :
         i < j /\ pc[futures[j]] # "absent" => Finished(futures[i])

\* the second probe of the second project is being called
C25_Witness ==
  /\ Len(projects) = 2
  /\ Finished(AccountThread(projects[1]))
  /\ LET futures == locals[AccountThread(projects[2])].futures IN
       /\ Len(futures) >= 2
       /\ Finished(futures[1])
       /\ Running(futures[2])

\* the service whose presence in service_list get_gcp_resources asks for
\* before it calls probe f (for get_gcp_buckets the two branches differ)
Required(f) ==
  CASE f = GCE -> COMPUTE
    [] f = GKE -> CONTAINER
    [] f = CLOUD_FUNCTIONS -> FUNCTIONS
    [] f = CLOUDRUN -> RUN
    [] f = BUCKETS -> IF args.debug_mode THEN STORAGE ELSE STORAGE_API
    [] f = CLOUDSQL -> SQLADMIN
    [] f = SPANNER_INSTANCES -> SPANNER
    [] f = BIGQUERY_DATASETS -> BIGQUERY
    [] f = GCR -> ARTIFACTREGISTRY

\* the resource types of which one must be enabled for probe f to be called
ProbeTypes(f) ==
  CASE f = GCE -> {"Virtual Machines", "Container Hosts"}
    [] f = GKE -> {"Container Hosts", "Serverless Containers"}
    [] f = CLOUD_FUNCTIONS -> {"Serverless Functions"}
    [] f = CLOUDRUN -> {"Serverless Containers"}
    [] f = BUCKETS -> {"Data Buckets"}
    [] f = CLOUDSQL -> {"PaaS Databases"}
    [] f = SPANNER_INSTANCES -> {"PaaS Databases"}
    [] f = BIGQUERY_DATASETS -> {"Data Warehouses"}
    [] f = GCR -> {"Registry Container Images"}

(* C26: a probe that was submitted or called for a project has its service
   in the service_list of that project and a resource type that the
   enabled map switches on *)
C26_OnlyApplicableProbes ==
  \A t \in ProbeThreads :
    pc[t] # "absent" =>
      /\ Required(t[1]) \in locals[AccountThread(t[2])].service_list
      /\ \E rt \in ProbeTypes(t[1]) : enabled(args)[rt]

\* get_gcp_resources has ended for a project that has the registry service
\* and a region but not cloud functions, in a run without --images: the
\* compute probe ran, the other two were not called
C26_Witness ==
  \E p \in AllProjects :
    LET l == locals[AccountThread(p)] IN
    /\ ~args.images_mode
    /\ pc[AccountThread(p)] = "returned"
    /\ l.service_list = {COMPUTE, ARTIFACTREGISTRY}
    /\ l.regions_list # <<>>
    /\ pc[ProbeThread(GCE, p, "")] = "returned"
    /\ pc[ProbeThread(CLOUD_FUNCTIONS, p, "")] = "absent"
    /\ \A r \in Regions : pc[ProbeThread(GCR, p, r)] = "absent"

(* C27: when get_gcp_resources has returned for a project whose service_list
   is empty, it has submitted or called no probe, totals_log holds no row of
   the project, and, the project being the only one of the run, totals is
   as it was *)
C27_NoServicesNoProbes ==
  \A p \in AllProjects :
    LET l == locals[AccountThread(p)] IN
    pc[AccountThread(p)] = "returned" /\ l.service_list = {} =>
      /\ l.futures = <<>>
      /\ \A t \in TasksOf(AccountThread(p)) : pc[t] = "absent"
      /\ \A i \in 1..Len(totals_log) : totals_log[i][3] # ProjectName(p)
      /\ Len(projects) = 1 => totals = InitTotals /\ totals_log = <<>>

\* the listing of the enabled services succeeded and was empty, and
\* get_gcp_resources has returned
C27_Witness ==
  \E p \in AllProjects :
    /\ pc[AccountThread(p)] = "returned"
    /\ locals[AccountThread(p)].client
    /\ locals[AccountThread(p)].service_list = {}
    /\ errors_log = <<>>

(* C28: with --images, for a project whose service_list holds the artifact
   registry service, get_gcp_resources submits or calls get_gcp_gcr_images
   once for every region of the project's regions_list and for no other
   region, and when it has returned each of those calls has ended *)
C28_RegistryProbePerRegion ==
  \A p \in AllProjects :
    LET t == AccountThread(p)
        l == locals[t] IN
    args.images_mode /\ ARTIFACTREGISTRY \in l.service_list =>
      /\ pc[t] \in {"shutdown", "debug_call", "returned", "raised"} =>
           \A r \in Regions :
             TimesIn(l.futures, ProbeThread(GCR, p, r)) =
               IF r \in Range(l.regions_list) THEN 1 ELSE 0
      /\ pc[t] = "returned" =>
           \A r \in Regions :
             IF r \in Range(l.regions_list)
             THEN Finished(ProbeThread(GCR, p, r))
             ELSE pc[ProbeThread(GCR, p, r)] = "absent"

\* the registry probe has run for the one region of a project's regions_list
\* and not for the other region the remote has
C28_Witness ==
  \E p \in AllProjects :
    LET l == locals[AccountThread(p)] IN
    /\ args.images_mode
    /\ ARTIFACTREGISTRY \in l.service_list
    /\ pc[AccountThread(p)] = "returned"
    /\ l.regions_list = <<RegionNames[2]>>
    /\ pc[ProbeThread(GCR, p, RegionNames[2])] = "returned"
    /\ pc[ProbeThread(GCR, p, RegionNames[1])] = "absent"

\* log is the beginning of later
IsPrefix(log, later) ==
  /\ Len(log) <= Len(later)
  /\ \A i \in 1..Len(log) : later[i] = log[i]

\* where totals_log holds the rows probe t has printed: its k-th row is
\* there only after its rows before it
RowsInOrder(t) ==
  LET rows == RowsOf(t) IN
  \A k \in 1..Len(rows), j \in 1..Len(totals_log) :
    k > 1 /\ totals_log[j] = rows[k] =>
      \E i \in 1..(j - 1) : totals_log[i] = rows[k - 1]

(* C29: totals_log and errors_log only grow at their end, what they hold
   keeps its value and its place in every step, and the rows one probe
   call printed are in totals_log in the order it printed them *)
C29_AppendOnly ==
  [][/\ IsPrefix(totals_log, totals_log')
     /\ IsPrefix(errors_log, errors_log')
     /\ \A t \in ProbeThreads : locals'[t].closed => RowsInOrder(t)']_vars

\* the two rows of one probe are in totals_log with the row of another
\* probe between them
C29_Witness ==
  \E t \in ClosedProbes, i, j, k \in 1..Len(totals_log) :
    /\ Len(RowsOf(t)) = 2
    /\ i < j /\ j < k
    /\ totals_log[i] = RowsOf(t)[1]
    /\ totals_log[k] = RowsOf(t)[2]
    /\ totals_log[j] \notin {RowsOf(t)[1], RowsOf(t)[2]}

\* the update of totals that probe t is about to store
Merging(t) == Head(Head(locals[t].emit).merges)

(* C30: every entry of totals is a natural number that no step decreases,
   and a step that changes totals is a probe adding one of its own counts
   to one entry *)
C30_TotalsOnlyGrow ==
  [][/\ \A r \in ResourceTypes :
          /\ totals'[r] \in Nat
          /\ totals'[r] >= totals[r]
     /\ totals' # totals =>
          \E t \in ProbeThreads :
            /\ pc[t] = "totals_write"
            /\ pc'[t] # "totals_write"
            /\ totals' = [totals EXCEPT
                            ![Merging(t)[1]] = @ + Merging(t)[2]]]_vars

\* two probes have added to the same total, which is now their sum
C30_Witness ==
  \E t, u \in ClosedProbes, r \in ResourceTypes :
    /\ t # u
    /\ Finished(t) /\ Finished(u)
    /\ Recorded(t, r) > 0 /\ Recorded(u, r) > 0
    /\ totals[r] = Recorded(t, r) + Recorded(u, r)

(* C31: the number of images get_gcp_gcr_images counts for one repository,
   as it is added to container_registry_images, never exceeds the limit the
   source documents, 1000 images per container registry *)
C31_RepositoryWithinLimit ==
  \A t \in ProbeThreads :
    t[1] = GCR /\ pc[t] = "repository" =>
      locals[t].container_registry_images_in_repository <= DocumentedImageLimit

\* the lookups of get_disk_image_details that raised for probe t, and the
\* records error_print appended for them
LookupsRaised(t) ==
  Cardinality({i \in 1..Len(remote_log[t]) : remote_log[t][i].walk = "disks"})

LookupRecords(p) ==
  Cardinality({i \in 1..Len(errors_log) :
     /\ errors_log[i].project = p
     /\ errors_log[i].function = "get_disk_image_details"})

(* C33: when lookups of get_disk_image_details have raised in the compute
   probe of a project, errors_log holds one record of the project for each,
   the instances are counted as virtual machines and as virtual machine
   sensors, the probe has not ended because of them, and when it has
   returned the totals hold its counts *)
C33_LookupFailureIsCounted ==
  \A t \in ProbeThreads :
    t[1] = GCE /\ LookupsRaised(t) > 0 =>
      LET l == locals[t]
          k == LookupsRaised(t) IN
      /\ LookupRecords(t[2]) = k
      /\ l.instances_count >= k
      /\ l.linux_instances_count >= k
      /\ pc[t] = "raised" => faults > k
      /\ pc[t] = "returned" =>
           /\ totals["Virtual Machines"] = l.instances_count
           /\ totals["Virtual Machine Sensors"] = l.linux_instances_count

\* a lookup raised on the first page, the probe read the second page and
\* returned, and the instance is in both totals
C33_Witness ==
  \E t \in ProbeThreads :
    /\ t[1] = GCE
    /\ pc[t] = "returned"
    /\ Len(remote_log[t]) = 3
    /\ remote_log[t][2].walk = "disks"
    /\ remote_log[t][3].walk = "list"
    /\ totals["Virtual Machines"] >= 1
    /\ totals["Virtual Machine Sensors"] >= 1

(* C32: a parallel run never deadlocks: the holder of totals_lock is inside
   the block of additions to totals, where it takes no other lock and waits
   for nothing; a project task waiting for its probes at the end of its
   "with executor" block has a probe running or a free worker for the next
   queued probe; and while main has not ended some thread can take a step *)
C32_NeverDeadlocks ==
  /\ \A t \in Threads :
       totals_lock = t => pc[t] \in {"totals_read", "totals_write"}
  /\ \A p \in AllProjects :
       LET t == AccountThread(p) IN
       pc[t] = "shutdown" /\ queue[t] # <<>> =>
         \/ Executing(t) # {}
         \/ CanStart(t, Head(queue[t]))
  /\ ~Finished(MainThread) => ENABLED Next

\* a pool of one worker: a project task waits for its probes, one of which
\* holds totals_lock while another is queued, and a second project task is
\* queued in main's pool
C32_Witness ==
  /\ args.max_workers = 1
  /\ \E p \in AllProjects :
       LET t == AccountThread(p) IN
       /\ pc[t] = "shutdown"
       /\ queue[t] # <<>>
       /\ \E u \in ProbeThreads : u[2] = p /\ totals_lock = u
  /\ queue[MainThread] # <<>>

====
